---- MODULE Spec2Model ----
(***************************************************************************)
(* Telemetry-and-quality control engine of the digital-twin viewer:        *)
(*   - AdaptiveQualityController and FPSMonitor                            *)
(*       (src/features/motor-3d/utils/performanceUtils.ts)                 *)
(*   - the animation loop of MotorScene                                    *)
(*       (src/features/motor-3d/components/MotorScene.tsx)                 *)
(*   - detectDeviceCapability (performanceUtils.ts)                        *)
(*   - the telemetry of MotorScene: extractJointAngles and                 *)
(*     calculateSensorData, as animate() drives them                       *)
(*   - useAlertDetection (src/features/alert-system)                       *)
(*   - the joint labels: calculateLinePositions                            *)
(*       (src/features/motor-3d/components/JointLabels.ts) and the branch  *)
(*     of animate() that calls it                                          *)
(*   - getQualitySettings and the quality level initScene() records        *)
(*                                                                         *)
(* Frame rates are JavaScript numbers.  They are held here in TENTHS of a  *)
(* frame per second (285 is 28.5 fps), so that 0.7 x target, 0.95 x target *)
(* and 1000 / delta are exact for every value the model uses; the products *)
(* targetFPS * 0.7 and targetFPS * 0.95 are exact in IEEE doubles for the  *)
(* two targets 30 and 60 (21, 28.5, 42, 57).                               *)
(***************************************************************************)
EXTENDS Integers, Sequences, FiniteSets, TLC

VARIABLES
    \* ---- AdaptiveQualityController (performanceUtils.ts:194-288)
    currentCapability,  \* this.currentCapability
    lowFPSCount,        \* this.lowFPSCount
    highFPSCount,       \* this.highFPSCount
    onQualityChange,    \* this.onQualityChange: NoCallback or a callback
    devicePixelRatio,   \* window.devicePixelRatio, in hundredths
    feedRate,           \* the rate a constant feed delivers (SpecConst), else 0
    \* ---- history of the controller's last operation
    ctlObs,             \* [op, fps, pre, calls, ret] of the last operation
    ctlRun,             \* the current run of ticks sampling one same rate
    registered,         \* every callback ever passed to onQualityUpdate
    spacing,            \* the ticks since the latest tier change (SpecGap)
    \* ---- FPSMonitor (performanceUtils.ts:130-188)
    frames,             \* this.frames: the window of instantaneous rates
    lastTime,           \* this.lastTime (ms)
    fps,                \* this.fps
    frameCallback,      \* this.frameCallback: NoCallback or a callback
    sampleSize,         \* this.sampleSize (constructor parameter)
    now,                \* performance.now() (ms), monotonic
    \* ---- history of the monitor
    monHist,            \* every sample pushed since construction or reset()
    monTicks,           \* number of tick() calls since construction
    monRun,             \* the current run of ticks with one same frame duration
    monObs,             \* [op, pre, calls, ret] of the last operation
    \* ---- MotorScene session (MotorScene.tsx:680-1262)
    mounted,            \* the component is mounted
    isInitialized,      \* useState: isInitialized
    isPaused,           \* prop isPaused (Home's state)
    callbackProps,      \* identity of the props onJointAnglesUpdate /
                        \* onSensorDataUpdate (changes when a parent passes
                        \* new functions)
    sceneRef,           \* sceneRef, cameraRef, rendererRef, fpsMonitorRef are set
    effectDeps,         \* deps [isInitialized, animate] the loop effect last ran with
    effectsPending,     \* a render was committed and its effects are not yet run
    animationIdRef,     \* animationIdRef.current: NoRequest or a request id
    requests,           \* the pending requestAnimationFrame callbacks
    nextId,             \* the id the next requestAnimationFrame returns
    ticksInFrame,       \* FPSMonitor.tick() calls since the latest display
                        \* frame began
    frameSeen,          \* a display frame has run a callback of the loop
    \* ---- detectDeviceCapability (performanceUtils.ts:65-117)
    platform,           \* what window, navigator and the WebGL probe report
    detected,           \* the outcome of the last detectDeviceCapability()
    qualityLevel,       \* MotorScene's useState: qualityLevel
    \* ---- useAlertDetection (src/unnamed/part_007:96-172)
    data,               \* the SensorData passed to the hook
    detection,          \* what the hook returned for it
    \* ---- MotorScene telemetry (MotorScene.tsx:697-866, 1113-1132)
    loadingStatus,      \* useState: "loading" | "loaded" | "error"
    bonesRef,           \* bonesRef.current: the tracked bones, in chain order
    mixerRef,           \* mixerRef.current is set (the model has animations)
    smoothedAnglesRef,  \* smoothedAnglesRef.current (index i is joint ji)
    prevAnglesRef,      \* prevAnglesRef.current: NoAngles or an angle set
    smoothedSensorRef,  \* smoothedSensorRef.current
    jointAngles,        \* Home's state, set by onJointAnglesUpdate
    sensorData,         \* Home's state, set by onSensorDataUpdate
    \* ---- history of the telemetry
    telObs,             \* what the last operation saw and did
    holdPose,           \* the pose the bones are held at (SpecHold), else <<>>
    telTicks,           \* number of animate() calls of the session
    alertSeen,          \* useAlertDetection(sensorData) returned an alert
                        \* after some tick of the session
    \* ---- MotorScene joint labels (MotorScene.tsx:713-722, 1139-1168)
    showJointLabels,    \* useState: showJointLabels
    cameraRef,          \* cameraRef.current: the camera's position and aspect
    containerRef,       \* containerRef.current: the container's client size
    linePositions,      \* useState: linePositions
    \* ---- history of the joint labels
    projObs             \* [op, labelPositions, ret] of the last operation

ctlVars == <<currentCapability, lowFPSCount, highFPSCount, onQualityChange,
             devicePixelRatio, feedRate, ctlObs, ctlRun, registered, spacing>>

monVars == <<frames, lastTime, fps, frameCallback, sampleSize, now,
             monHist, monTicks, monRun, monObs>>

loopVars == <<mounted, isInitialized, isPaused, callbackProps, sceneRef,
              effectDeps, effectsPending, animationIdRef, requests, nextId,
              ticksInFrame, frameSeen>>

detVars == <<platform, detected, qualityLevel>>

alertVars == <<data, detection>>

telVars == <<loadingStatus, bonesRef, mixerRef, smoothedAnglesRef,
             prevAnglesRef, smoothedSensorRef, jointAngles, sensorData,
             telObs, holdPose, telTicks, alertSeen>>

projVars == <<showJointLabels, cameraRef, containerRef, linePositions, projObs>>

\* the rendering engine, and the data path beside it
engineVars == <<ctlVars, monVars, loopVars>>
dataVars == <<detVars, alertVars, telVars, projVars>>

vars == <<engineVars, dataVars>>

----------------------------------------------------------------------------
(* Bounds of the model *)

\* longest run of equal-rate ticks the history follows
RunCap == 301
\* longest spacing of tier changes the history counts
GapCap == 301
\* number of distinct observer callbacks
MaxCallbacks == 2
\* largest window capacity a monitor is constructed with
MaxSampleSize == 3
\* number of tick() calls made on one monitor
MaxTicks == 5
\* number of requestAnimationFrame calls made in one scene session
MaxRequests == 8
\* number of times a parent passes new callback props
MaxPropChanges == 1
\* number of animate() calls made in one telemetry session
MaxAnimateTicks == 7
\* number of ticks the bones hold one pose
HoldTicks == 200

----------------------------------------------------------------------------
(* DeviceCapability and the preset table *)

DeviceCapability == {"high", "medium", "low"}

NoCallback == 0
Callbacks == 1..MaxCallbacks

\* window.devicePixelRatio || 1, in hundredths
getDevicePixelRatio(dpr) == IF dpr = 0 THEN 100 ELSE dpr

Min(a, b) == IF a < b THEN a ELSE b

QUALITY_PRESETS(cap, dpr) ==
    CASE cap = "high" ->
           [pixelRatio |-> Min(getDevicePixelRatio(dpr), 200),
            shadowMapSize |-> 2048, antialias |-> TRUE,
            shadowsEnabled |-> TRUE, maxLights |-> 4, targetFPS |-> 60]
      [] cap = "medium" ->
           [pixelRatio |-> Min(getDevicePixelRatio(dpr), 150),
            shadowMapSize |-> 1024, antialias |-> TRUE,
            shadowsEnabled |-> TRUE, maxLights |-> 3, targetFPS |-> 30]
      [] cap = "low" ->
           [pixelRatio |-> 100,
            shadowMapSize |-> 512, antialias |-> FALSE,
            shadowsEnabled |-> FALSE, maxLights |-> 2, targetFPS |-> 30]

----------------------------------------------------------------------------
(* AdaptiveQualityController *)

\* fps < targetFPS * 0.7, the rate in tenths
IsLowFPSLoose(rate, targetFPS) == rate * 100 <= targetFPS * 10 * 70
IsLowFPS(rate, targetFPS) == rate * 100 < targetFPS * 10 * 70

\* fps > targetFPS * 0.95, the rate in tenths
IsHighFPSLoose(rate, targetFPS) == rate * 100 >= targetFPS * 10 * 95
IsHighFPS(rate, targetFPS) == rate * 100 > targetFPS * 10 * 95

\* this.lowFPSCount > 120
DowngradeDueEarly(count) == count >= 120
DowngradeDue(count) == count > 120

\* this.highFPSCount > 300
UpgradeDueEarly(count) == count > 120
UpgradeDue(count) == count > 300

\* notifyChange(): the calls it makes to the registered callback
notifyChangeSilent(cb, cap, dpr) == <<>>
notifyChange(cb, cap, dpr) ==
    IF cb # NoCallback
    THEN <<[callback |-> cb, settings |-> QUALITY_PRESETS(cap, dpr)]>>
    ELSE <<>>

\* downgradeQuality(): the new tier and the notifications made
downgradeQualityToFloor(cap, cb, dpr) ==
    IF cap = "high" \/ cap = "medium"
    THEN [capability |-> "low", calls |-> notifyChange(cb, "low", dpr)]
    ELSE [capability |-> cap, calls |-> <<>>]
downgradeQuality(cap, cb, dpr) ==
    IF cap = "high"
    THEN [capability |-> "medium", calls |-> notifyChange(cb, "medium", dpr)]
    ELSE IF cap = "medium"
    THEN [capability |-> "low", calls |-> notifyChange(cb, "low", dpr)]
    ELSE [capability |-> cap, calls |-> <<>>]

\* upgradeQuality(): the new tier and the notifications made
upgradeQuality(cap, cb, dpr) ==
    IF cap = "low"
    THEN [capability |-> "medium", calls |-> notifyChange(cb, "medium", dpr)]
    ELSE IF cap = "medium"
    THEN [capability |-> "high", calls |-> notifyChange(cb, "high", dpr)]
    ELSE [capability |-> cap, calls |-> <<>>]

\* the value tick() returns
tickResult(rate, cap, dpr) ==
    [fps |-> rate, capability |-> cap, settings |-> QUALITY_PRESETS(cap, dpr)]

\* tick(), lines 210-232: the state after the transition rule and the
\* notifications it made, for the rate that this.fpsMonitor.tick() returned
tickTransition(cap, low, high, cb, dpr, rate) ==
    LET targetFPS == QUALITY_PRESETS(cap, dpr).targetFPS
        stay == [capability |-> cap, calls |-> <<>>]
    IN  IF IsLowFPS(rate, targetFPS)
        THEN LET d == IF DowngradeDue(low + 1)
                      THEN downgradeQuality(cap, cb, dpr) ELSE stay
             IN  [capability |-> d.capability, calls |-> d.calls,
                  lowFPSCount |-> IF DowngradeDue(low + 1) THEN 0 ELSE low + 1,
                  highFPSCount |-> 0]
        ELSE IF IsHighFPS(rate, targetFPS)
        THEN LET u == IF UpgradeDue(high + 1)
                      THEN upgradeQuality(cap, cb, dpr) ELSE stay
             IN  [capability |-> u.capability, calls |-> u.calls,
                  lowFPSCount |-> 0,
                  highFPSCount |-> IF UpgradeDue(high + 1) THEN 0 ELSE high + 1]
        ELSE [capability |-> cap, calls |-> <<>>,
              lowFPSCount |-> low, highFPSCount |-> high]

\* tick(): the transition, then the result built from the tier it left
tickStaleResult(cap, low, high, cb, dpr, rate) ==
    LET out == tickTransition(cap, low, high, cb, dpr, rate)
    IN  [capability |-> out.capability,
         lowFPSCount |-> out.lowFPSCount,
         highFPSCount |-> out.highFPSCount,
         calls |-> out.calls,
         ret |-> tickResult(rate, cap, dpr)]
tick(cap, low, high, cb, dpr, rate) ==
    LET out == tickTransition(cap, low, high, cb, dpr, rate)
    IN  [capability |-> out.capability,
         lowFPSCount |-> out.lowFPSCount,
         highFPSCount |-> out.highFPSCount,
         calls |-> out.calls,
         ret |-> tickResult(rate, out.capability, dpr)]

\* getSettings()
getSettings(cap, dpr) == QUALITY_PRESETS(cap, dpr)

\* getCapability()
getCapability(cap) == cap

----------------------------------------------------------------------------
(* FPSMonitor *)

\* 1000 / 0 in JavaScript; the only non-finite sample a monotonic clock
\* can produce
Infinity == -1

\* const instantFPS = 1000 / delta, in tenths of a frame per second (exact
\* for the frame durations of FrameDurations)
instantFPS(delta) == IF delta = 0 THEN Infinity ELSE 10000 \div delta

\* a + b of the reduce callback
Plus(a, b) == IF a = Infinity \/ b = Infinity THEN Infinity ELSE a + b

\* this.frames.reduce((a, b) => a + b, 0)
RECURSIVE SumFrames(_)
SumFrames(fr) == IF fr = <<>> THEN 0 ELSE Plus(SumFrames(Tail(fr)), Head(fr))

\* Math.round(sum / n): the nearest whole rate, halves rounded up, as a
\* rate in tenths.  sum is in tenths, so sum / n rounds to
\* floor((sum + 5 n) / (10 n)).
RoundedMean(sum, n) ==
    IF sum = Infinity THEN Infinity ELSE ((sum + 5 * n) \div (10 * n)) * 10

\* this.frames.shift()
shiftNewest(fr) == SubSeq(fr, 1, Len(fr) - 1)
shift(fr) == Tail(fr)

\* the window after this.frames.push(sample) and the capacity check
pushNoEvict(fr, sample, size) == Append(fr, sample)
push(fr, sample, size) ==
    LET pushed == Append(fr, sample)
    IN  IF Len(pushed) > size THEN shift(pushed) ELSE pushed

\* the calls tick() makes to the frame callback
frameCalls(cb, rate) ==
    IF cb # NoCallback THEN <<[callback |-> cb, fps |-> rate]>> ELSE <<>>

\* the frame durations (ms) between two calls: 0 (same timestamp),
\* 16 (62.5 fps), 20 (50 fps), 40 (25 fps)
FrameDurations == {0, 16, 20, 40}

SampleSizes == 1..MaxSampleSize

NoFrameRun == [delta |-> 0, len |-> 0]

MonObserved(op, ret) == [op |-> op, pre |-> <<>>, calls |-> <<>>, ret |-> ret]

\* new FPSMonitor(sampleSize)
MonConstructed ==
    /\ frames = <<>>
    /\ now = 0
    /\ lastTime = now
    /\ fps = 0
    /\ frameCallback = NoCallback
    /\ sampleSize \in SampleSizes
    /\ monHist = <<>>
    /\ monTicks = 0
    /\ monRun = NoFrameRun
    /\ monObs = MonObserved("constructor", 0)

\* no monitor of its own is followed
MonUnused ==
    /\ frames = <<>>
    /\ now = 0
    /\ lastTime = 0
    /\ fps = 0
    /\ frameCallback = NoCallback
    /\ sampleSize = 0
    /\ monHist = <<>>
    /\ monTicks = 0
    /\ monRun = NoFrameRun
    /\ monObs = MonObserved("none", 0)

----------------------------------------------------------------------------
(* MotorScene: the animation loop and the effect that starts it *)

NoRequest == 0
NoDeps == [isInitialized |-> FALSE, animate |-> [none |-> TRUE]]

\* const animate = useCallback(..., [isPaused, onJointAnglesUpdate,
\* onSensorDataUpdate, extractJointAngles, calculateSensorData]): the
\* function a render holds is identified by the deps that can change
animateOf(paused, callbacks) == [isPaused |-> paused, callbackProps |-> callbacks]

\* requestAnimationFrame(cb): the request queue and the id returned
requestAnimationFrame(reqs, id, cb) == reqs \cup {[id |-> id, animate |-> cb]}

\* cancelAnimationFrame(id)
cancelAnimationFrame(reqs, id) == {r \in reqs : r.id # id}

\* animate(), run with the closure a, on the loop state
\* st = [requests, animationIdRef, nextId, ticksInFrame]: the early return
\* when the scene is not built, one FPSMonitor.tick(), one frame request
animate(st, a, scene) ==
    IF ~scene
    THEN st
    ELSE [requests |-> requestAnimationFrame(st.requests, st.nextId, a),
          animationIdRef |-> st.nextId,
          nextId |-> st.nextId + 1,
          ticksInFrame |-> st.ticksInFrame + 1]

\* the cleanup of the loop effect
loopCleanupKeeps(st) == st
loopCleanup(st) ==
    IF st.animationIdRef # NoRequest
    THEN [st EXCEPT !.requests = cancelAnimationFrame(@, st.animationIdRef)]
    ELSE st

\* a display frame runs the callbacks that were pending when it began, in
\* the order they were requested
RECURSIVE runCallbacks(_, _, _)
runCallbacks(st, due, scene) ==
    IF due = {}
    THEN st
    ELSE LET first == CHOOSE r \in due : \A q \in due : r.id <= q.id
         IN  runCallbacks(animate(st, first.animate, scene), due \ {first}, scene)

LoopState == [requests |-> requests, animationIdRef |-> animationIdRef,
              nextId |-> nextId, ticksInFrame |-> ticksInFrame]

SetLoopState(st) ==
    /\ requests' = st.requests
    /\ animationIdRef' = st.animationIdRef
    /\ nextId' = st.nextId
    /\ ticksInFrame' = st.ticksInFrame

\* the component after its first render, before any effect ran
LoopMounted ==
    /\ mounted = TRUE
    /\ isInitialized = FALSE
    /\ isPaused \in BOOLEAN
    /\ callbackProps = 0
    /\ sceneRef = FALSE
    /\ effectDeps = NoDeps
    /\ effectsPending = TRUE
    /\ animationIdRef = NoRequest
    /\ requests = {}
    /\ nextId = 1
    /\ ticksInFrame = 0
    /\ frameSeen = FALSE

\* no scene session is followed
LoopUnused ==
    /\ mounted = FALSE
    /\ isInitialized = FALSE
    /\ isPaused = FALSE
    /\ callbackProps = 0
    /\ sceneRef = FALSE
    /\ effectDeps = NoDeps
    /\ effectsPending = FALSE
    /\ animationIdRef = NoRequest
    /\ requests = {}
    /\ nextId = 1
    /\ ticksInFrame = 0
    /\ frameSeen = FALSE

----------------------------------------------------------------------------
(* detectDeviceCapability *)

\* what `x || 4` replaces: a value the platform does not report (undefined,
\* or 0)
NotReported == 0

\* navigator.hardwareConcurrency || 4, navigator.deviceMemory || 4
orFour(v) == IF v = NotReported THEN 4 ELSE v

\* /Android|webOS|iPhone|iPad|iPod|BlackBerry|IEMobile|Opera Mini/i.test(ua):
\* a user agent is named here by the keyword of that kind it carries
MobileKeywords == {"Android", "webOS", "iPhone", "iPad", "iPod", "BlackBerry",
                   "IEMobile", "Opera Mini"}
isMobileAgent(userAgent) == userAgent \in MobileKeywords

\* /NVIDIA|AMD|Radeon|GeForce|RTX|GTX/i and /Intel|Mali|Adreno|Apple/i: a
\* renderer string is named by the keyword it carries
DiscreteKeywords == {"NVIDIA", "AMD", "Radeon", "GeForce", "RTX", "GTX"}
IntegratedKeywords == {"Intel", "Mali", "Adreno", "Apple"}

\* the body of the try block, lines 85-98: the value webglCapability holds
\* when the block ends, or "exception" when a call inside it raised
probeSignal(probe, isMobile) ==
    IF probe.outcome = "throws" THEN "exception"
    ELSE IF probe.outcome = "noContext" THEN "medium"
    ELSE IF probe.outcome = "noExtension" THEN "medium"
    ELSE IF probe.renderer \in DiscreteKeywords THEN "high"
    ELSE IF probe.renderer \in IntegratedKeywords
    THEN (IF isMobile THEN "low" ELSE "medium")
    ELSE "medium"

\* try { ... } catch { webglCapability = 'low' }
tryProbeNoCatch(probe, isMobile) ==
    LET signal == probeSignal(probe, isMobile)
    IN  [thrown |-> signal = "exception", webglCapability |-> signal]
tryProbe(probe, isMobile) ==
    LET signal == probeSignal(probe, isMobile)
    IN  [thrown |-> FALSE,
         webglCapability |-> IF signal = "exception" THEN "low" ELSE signal]

\* isMobile && deviceMemory < 4
IsLowEndMobileLoose(isMobile, deviceMemory) == isMobile /\ deviceMemory <= 4
IsLowEndMobile(isMobile, deviceMemory) == isMobile /\ deviceMemory < 4

\* lines 104-116: the overall capability
overallCapability(isMobile, cpuCores, deviceMemory, webglCapability) ==
    IF IsLowEndMobile(isMobile, deviceMemory) THEN "low"
    ELSE IF cpuCores >= 8 /\ deviceMemory >= 8 /\ webglCapability = "high"
    THEN "high"
    ELSE IF cpuCores >= 4 /\ deviceMemory >= 4 THEN "medium"
    ELSE "low"

\* detectDeviceCapability() on platform p: what it returns (or that it
\* threw), and the values of its locals
detectDeviceCapability(p) ==
    IF ~p.window
    THEN [done |-> TRUE, thrown |-> FALSE, capability |-> "medium",
          isMobile |-> FALSE, cpuCores |-> 0, deviceMemory |-> 0,
          webglCapability |-> "unprobed"]
    ELSE LET isMobile == isMobileAgent(p.userAgent)
             cpuCores == orFour(p.hardwareConcurrency)
             deviceMemory == orFour(p.deviceMemory)
             webgl == tryProbe(p.probe, isMobile)
         IN  [done |-> TRUE, thrown |-> webgl.thrown,
              capability |-> IF webgl.thrown THEN "none"
                             ELSE overallCapability(isMobile, cpuCores,
                                      deviceMemory, webgl.webglCapability),
              isMobile |-> isMobile, cpuCores |-> cpuCores,
              deviceMemory |-> deviceMemory,
              webglCapability |-> webgl.webglCapability]

\* the platforms of the model
UserAgents == {"Android", "iPhone", "Windows", "Macintosh"}
CoreCounts == {NotReported, 2, 4, 8, 16}
MemorySizes == {NotReported, 2, 4, 8}
Renderers == {"NVIDIA", "Radeon", "Intel", "Adreno", "Apple", "SwiftShader"}
Probes ==
    [outcome : {"throws", "noContext", "noExtension"}, renderer : {"none"}]
    \cup [outcome : {"renderer"}, renderer : Renderers]

NoPlatform == [window |-> FALSE, userAgent |-> "none",
               hardwareConcurrency |-> NotReported,
               deviceMemory |-> NotReported,
               probe |-> [outcome |-> "noContext", renderer |-> "none"]]

Platforms ==
    {NoPlatform} \cup
    [window : {TRUE}, userAgent : UserAgents, hardwareConcurrency : CoreCounts,
     deviceMemory : MemorySizes, probe : Probes]

NotDetected == [done |-> FALSE, thrown |-> FALSE, capability |-> "none",
                isMobile |-> FALSE, cpuCores |-> 0, deviceMemory |-> 0,
                webglCapability |-> "unprobed"]

\* no classification is followed
DetUnused ==
    /\ platform = NoPlatform
    /\ detected = NotDetected
    /\ qualityLevel = "medium"

\* getQualitySettings(capability), capability given or not, on platform p
\* with window.devicePixelRatio dpr: the tier chosen and its preset
NoCapability == "none"

getQualitySettings(capability, p, dpr) ==
    LET deviceCapability == IF capability # NoCapability THEN capability
                            ELSE detectDeviceCapability(p).capability
    IN  [deviceCapability |-> deviceCapability,
         settings |-> QUALITY_PRESETS(deviceCapability, dpr)]

\* initScene(), lines 877-884: the level set from the preset's pixel ratio
\* (hundredths)
qualityLevelOf(pixelRatio) ==
    IF pixelRatio > 150 THEN "high"
    ELSE IF pixelRatio > 100 THEN "medium"
    ELSE "low"

----------------------------------------------------------------------------
(* useAlertDetection *)

ALL_THRESHOLDS ==
    [jointLoad |-> [warning |-> 70, danger |-> 85],
     speed     |-> [warning |-> 700, danger |-> 800],
     cycleTime |-> [warning |-> 15, danger |-> 18]]

\* one `if (value >= danger) push(...) else if (value >= warning) push(...)`
\* block: the alerts it pushes.  The field sensor holds the name of the
\* SensorData field (the source holds its display label).
checkMetricBoth(dangerId, warningId, sensor, value, thresholds) ==
    (IF value >= thresholds.danger
     THEN <<[id |-> dangerId, type |-> "danger", sensor |-> sensor,
             value |-> value, threshold |-> thresholds.danger]>>
     ELSE <<>>)
    \o (IF value >= thresholds.warning
        THEN <<[id |-> warningId, type |-> "warning", sensor |-> sensor,
                value |-> value, threshold |-> thresholds.warning]>>
        ELSE <<>>)
checkMetric(dangerId, warningId, sensor, value, thresholds) ==
    IF value >= thresholds.danger
    THEN <<[id |-> dangerId, type |-> "danger", sensor |-> sensor,
            value |-> value, threshold |-> thresholds.danger]>>
    ELSE IF value >= thresholds.warning
    THEN <<[id |-> warningId, type |-> "warning", sensor |-> sensor,
            value |-> value, threshold |-> thresholds.warning]>>
    ELSE <<>>

\* the useMemo body: joint load, then speed, then cycle time
activeAlerts(d) ==
    checkMetric("load-danger", "load-warning", "jointLoad",
                d.jointLoad, ALL_THRESHOLDS.jointLoad)
    \o checkMetric("speed-danger", "speed-warning", "speed",
                   d.speed, ALL_THRESHOLDS.speed)
    \o checkMetric("cycle-danger", "cycle-warning", "cycleTime",
                   d.cycleTime, ALL_THRESHOLDS.cycleTime)

\* alerts.some(a => a.type === type)
someOfAnyType(alerts, type) == alerts # <<>>
someOfType(alerts, type) == \E i \in DOMAIN alerts : alerts[i].type = type

\* useAlertDetection(data)
useAlertDetection(d) ==
    LET alerts == activeAlerts(d)
        hasWarning == someOfType(alerts, "warning")
        hasDanger == someOfType(alerts, "danger")
    IN  [alerts |-> alerts, hasWarning |-> hasWarning,
         hasDanger |-> hasDanger, isOverheating |-> hasDanger]

\* the sensor samples of the model: below, at and above each threshold
Loads == {0, 30, 69, 70, 84, 85, 90}
Speeds == {200, 699, 700, 799, 800}
CycleTimes == {12, 14, 15, 17, 18}
SensorSamples == [jointLoad : Loads, speed : Speeds, cycleTime : CycleTimes]

\* the seed of smoothedSensorRef and of Home's sensorData
SeededSensor == [jointLoad |-> 30, speed |-> 200, cycleTime |-> 12]

NoDetection == [called |-> FALSE, alerts |-> <<>>, hasWarning |-> FALSE,
                hasDanger |-> FALSE, isOverheating |-> FALSE]

\* no evaluation is followed
AlertUnused ==
    /\ data = SeededSensor
    /\ detection = NoDetection

----------------------------------------------------------------------------
(* MotorScene telemetry: extractJointAngles, calculateSensorData and the   *)
(* part of animate() that drives them.  An angle set (JointAngles) is a    *)
(* tuple whose element i is joint ji; bone rotations are Euler components  *)
(* in whole degrees.                                                       *)

Abs(a) == IF a < 0 THEN -a ELSE a

\* Math.PI, in the unit the Euler components of a bone's rotation are held
\* in: half degrees, that is pi / 360 rad
PI == 360

\* const radToDeg = (rad) => rad * (180 / Math.PI); exact for the
\* rotations of the model, which are whole degrees
radToDeg(rad) == (rad * 180) \div PI

\* getBoneAngle(bones[i - 1]): 0 for a missing bone, else the component of
\* greatest magnitude, in degrees
getBoneAngleStrict(bones, i) ==
    IF i > Len(bones)
    THEN 0
    ELSE LET euler == bones[i]
             absX == Abs(euler.x)
             absY == Abs(euler.y)
             absZ == Abs(euler.z)
         IN  IF absX > absY /\ absX > absZ THEN radToDeg(euler.x)
             ELSE IF absY > absX /\ absY > absZ THEN radToDeg(euler.y)
             ELSE radToDeg(euler.z)
getBoneAngle(bones, i) ==
    IF i > Len(bones)
    THEN 0
    ELSE LET euler == bones[i]
             absX == Abs(euler.x)
             absY == Abs(euler.y)
             absZ == Abs(euler.z)
         IN  IF absX >= absY /\ absX >= absZ THEN radToDeg(euler.x)
             ELSE IF absY >= absX /\ absY >= absZ THEN radToDeg(euler.y)
             ELSE radToDeg(euler.z)

\* const rawAngles = { j1: getBoneAngle(bones[0]), ... }
rawAnglesOf(bones) ==
    <<getBoneAngle(bones, 1), getBoneAngle(bones, 2), getBoneAngle(bones, 3),
      getBoneAngle(bones, 4), getBoneAngle(bones, 5), getBoneAngle(bones, 6)>>

\* Math.round(prev + 0.15 * (raw - prev)) for whole prev and raw: the sum
\* is (20 prev + 3 (raw - prev)) / 20 and Math.round rounds halves up
smoothAngleUnblended(prev, raw) == (20 * prev + 3 * raw + 10) \div 20
smoothAngle(prev, raw) == (20 * prev + 3 * (raw - prev) + 10) \div 20

\* extractJointAngles(): the new smoothedAnglesRef.current, also returned
extractJointAngles(bones, prev) ==
    LET rawAngles == rawAnglesOf(bones)
    IN  <<smoothAngle(prev[1], rawAngles[1]), smoothAngle(prev[2], rawAngles[2]),
          smoothAngle(prev[3], rawAngles[3]), smoothAngle(prev[4], rawAngles[4]),
          smoothAngle(prev[5], rawAngles[5]), smoothAngle(prev[6], rawAngles[6])>>

\* prevAnglesRef.current = null
NoAngles == <<>>

\* const changes = [Math.abs(currentAngles.j1 - prevAngles.j1), ...]
changesOf(currentAngles, prevAngles) ==
    <<Abs(currentAngles[1] - prevAngles[1]), Abs(currentAngles[2] - prevAngles[2]),
      Abs(currentAngles[3] - prevAngles[3]), Abs(currentAngles[4] - prevAngles[4]),
      Abs(currentAngles[5] - prevAngles[5]), Abs(currentAngles[6] - prevAngles[6])>>

\* .filter((c) => c < 30)
keepsChangeLoose(c) == c <= 30
keepsChange(c) == c < 30

\* changes.filter(...).reduce((a, b) => a + b, 0)
RECURSIVE filterReduce(_)
filterReduce(changes) ==
    IF changes = <<>>
    THEN 0
    ELSE (IF keepsChange(Head(changes)) THEN Head(changes) ELSE 0)
         + filterReduce(Tail(changes))

totalAngularVelocityOf(currentAngles, prevAngles) ==
    IF prevAngles # NoAngles
    THEN filterReduce(changesOf(currentAngles, prevAngles))
    ELSE 0

\* Math.min(80, 20 + totalAngularVelocity * 3)
rawLoadUncapped(totalAngularVelocity) == 20 + totalAngularVelocity * 3
rawLoadOf(totalAngularVelocity) == Min(80, 20 + totalAngularVelocity * 3)

\* Math.min(800, 100 + totalAngularVelocity * 50)
rawSpeedOf(totalAngularVelocity) == Min(800, 100 + totalAngularVelocity * 50)

\* Math.round(prev + 0.1 * (raw - prev)) for whole prev and raw
smoothSensorCeil(prev, raw) == (10 * prev + (raw - prev) + 9) \div 10
smoothSensor(prev, raw) == (10 * prev + (raw - prev) + 5) \div 10

\* calculateSensorData(currentAngles): the new smoothedSensorRef.current
\* (also returned), the new prevAnglesRef.current, and its locals
calculateSensorData(currentAngles, prevAngles, prev) ==
    LET totalAngularVelocity == totalAngularVelocityOf(currentAngles, prevAngles)
        rawLoad == rawLoadOf(totalAngularVelocity)
        rawSpeed == rawSpeedOf(totalAngularVelocity)
    IN  [smoothed |-> [jointLoad |-> smoothSensor(prev.jointLoad, rawLoad),
                       speed |-> smoothSensor(prev.speed, rawSpeed),
                       cycleTime |-> 12],
         prevAngles |-> currentAngles,
         totalAngularVelocity |-> totalAngularVelocity,
         rawLoad |-> rawLoad, rawSpeed |-> rawSpeed]

\* a bone whose rotation is a degrees about x
BoneAt(a) == [x |-> (a * PI) \div 180, y |-> 0, z |-> 0]

\* mixerRef.current.update(delta) on the tracked bones: the animation
\* leaves the i-th tracked bone at the i-th angle of pose
mixerUpdate(bones, pose) == [i \in DOMAIN bones |-> BoneAt(pose[i])]

ZeroAngles == <<0, 0, 0, 0, 0, 0>>

\* the telemetry state animate() works on
TelState ==
    [bones |-> bonesRef, mixer |-> mixerRef,
     smoothedAngles |-> smoothedAnglesRef, prevAngles |-> prevAnglesRef,
     smoothedSensor |-> smoothedSensorRef,
     jointAngles |-> jointAngles, sensorData |-> sensorData]

\* if (mixerRef.current && !isPaused)
updatesMixerAlways(mixer, paused) == mixer
updatesMixer(mixer, paused) == mixer /\ ~paused

\* animate(), lines 1113-1132 and 1170-1174, called with the props isPaused,
\* onJointAnglesUpdate and onSensorDataUpdate (given or not) while the
\* animation is at pose: the state it leaves and what it did
animateTelemetry(st, paused, onAngles, onSensor, pose) ==
    IF updatesMixer(st.mixer, paused)
    THEN LET bones == mixerUpdate(st.bones, pose)
             angles == extractJointAngles(bones, st.smoothedAngles)
             sensed == calculateSensorData(angles, st.prevAngles, st.smoothedSensor)
         IN  [bones |-> bones, mixer |-> st.mixer,
              smoothedAngles |-> angles,
              prevAngles |-> IF onSensor THEN sensed.prevAngles ELSE st.prevAngles,
              smoothedSensor |-> IF onSensor THEN sensed.smoothed
                                 ELSE st.smoothedSensor,
              jointAngles |-> IF onAngles THEN angles ELSE st.jointAngles,
              sensorData |-> IF onSensor THEN sensed.smoothed ELSE st.sensorData,
              extracted |-> TRUE, raw |-> rawAnglesOf(bones),
              emittedAngles |-> onAngles, emittedSensor |-> onSensor,
              totalAngularVelocity |-> IF onSensor THEN sensed.totalAngularVelocity
                                       ELSE 0,
              rawLoad |-> IF onSensor THEN sensed.rawLoad ELSE 0,
              rawSpeed |-> IF onSensor THEN sensed.rawSpeed ELSE 0,
              monitorTicks |-> 1]
    ELSE [bones |-> st.bones, mixer |-> st.mixer,
          smoothedAngles |-> st.smoothedAngles, prevAngles |-> st.prevAngles,
          smoothedSensor |-> st.smoothedSensor,
          jointAngles |-> st.jointAngles, sensorData |-> st.sensorData,
          extracted |-> FALSE, raw |-> NoAngles,
          emittedAngles |-> FALSE, emittedSensor |-> FALSE,
          totalAngularVelocity |-> 0, rawLoad |-> 0, rawSpeed |-> 0,
          monitorTicks |-> 1]

\* what an operation leaves in the history
TelPre == [smoothedAngles |-> smoothedAnglesRef, prevAngles |-> prevAnglesRef,
           smoothedSensor |-> smoothedSensorRef]

NoTelPre == [smoothedAngles |-> ZeroAngles, prevAngles |-> NoAngles,
             smoothedSensor |-> SeededSensor]

TelObserved(op) ==
    [op |-> op, paused |-> FALSE, pre |-> NoTelPre,
     extracted |-> FALSE, raw |-> NoAngles, current |-> NoAngles,
     emittedAngles |-> FALSE, emittedSensor |-> FALSE,
     totalAngularVelocity |-> 0, rawLoad |-> 0, rawSpeed |-> 0,
     monitorTicks |-> 0, resumed |-> FALSE, held |-> NoTelPre]

\* MotorScene and Home after their first render: the refs and states as
\* seeded, the model still loading
TelConstructed ==
    /\ loadingStatus = "loading"
    /\ bonesRef = <<>>
    /\ mixerRef = FALSE
    /\ smoothedAnglesRef = ZeroAngles
    /\ prevAnglesRef = NoAngles
    /\ smoothedSensorRef = SeededSensor
    /\ jointAngles = ZeroAngles
    /\ sensorData = SeededSensor
    /\ telObs = TelObserved("constructor")
    /\ telTicks = 0
    /\ alertSeen = FALSE

\* no telemetry is followed
TelUnused ==
    /\ loadingStatus = "loading"
    /\ bonesRef = <<>>
    /\ mixerRef = FALSE
    /\ smoothedAnglesRef = ZeroAngles
    /\ prevAnglesRef = NoAngles
    /\ smoothedSensorRef = SeededSensor
    /\ jointAngles = ZeroAngles
    /\ sensorData = SeededSensor
    /\ telObs = TelObserved("none")
    /\ holdPose = <<>>
    /\ telTicks = 0
    /\ alertSeen = FALSE

----------------------------------------------------------------------------
(* The joint labels (JointLabels.ts) and the branch of animate() that      *)
(* places their connector lines (MotorScene.tsx:1139-1168).                *)
(*                                                                         *)
(* World coordinates are held in HUNDREDTHS of a world unit, as triples    *)
(* <<x, y, z>>.  A number the projection computes is a record: a ratio     *)
(* num / den of integers with den > 0, or one of the IEEE values NaN,      *)
(* +Infinity and -Infinity, which a division by zero produces.             *)

\* the perspective camera of initScene(): fov 75, near 0.1, far 1000;
\* 1 / tan(fov / 2) = 1.3032... is taken as 13 / 10
CAMERA_SETTINGS ==
    [fov |-> 75, cotHalfFov |-> [num |-> 13, den |-> 10],
     near |-> 10, far |-> 100000]

\* the values of a JavaScript number that the projection meets
Ratio(n, d) ==
    IF d > 0 THEN [kind |-> "finite", num |-> n, den |-> d]
    ELSE [kind |-> "finite", num |-> -n, den |-> -d]
NotANumber == [kind |-> "NaN", num |-> 0, den |-> 1]
PlusInfinity == [kind |-> "Infinity", num |-> 1, den |-> 1]
MinusInfinity == [kind |-> "-Infinity", num |-> -1, den |-> 1]

\* n * Infinity
timesInfinity(n) ==
    IF n = 0 THEN NotANumber
    ELSE IF n > 0 THEN PlusInfinity ELSE MinusInfinity

\* -v
negated(v) ==
    IF v.kind = "finite" THEN Ratio(-v.num, v.den)
    ELSE IF v.kind = "Infinity" THEN MinusInfinity
    ELSE IF v.kind = "-Infinity" THEN PlusInfinity
    ELSE NotANumber

\* (v * 0.5 + 0.5) * size, for a size > 0
toPixels(v, size) ==
    IF v.kind = "finite" THEN Ratio(size * (v.num + v.den), 2 * v.den)
    ELSE v

\* v < 1
lessThanOne(v) ==
    IF v.kind = "finite" THEN v.num < v.den
    ELSE v.kind = "-Infinity"

\* Vector3.project(camera) of three.js, for a perspective camera that
\* looks down the world's -z axis from camera.position:
\*   applyMatrix4(camera.matrixWorldInverse): the point in camera space;
\*   applyMatrix4(camera.projectionMatrix): with w = 1 / (-z),
\*     x = (cot / aspect) * x * w,  y = cot * y * w,
\*     z = (-(far + near) / (far - near) * z - 2 far near / (far - near)) * w
\* 1 / 0 is Infinity, and the products with it follow IEEE
project(worldPos, camera) ==
    LET xc == worldPos[1] - camera.position[1]
        yc == worldPos[2] - camera.position[2]
        zc == worldPos[3] - camera.position[3]
        cot == CAMERA_SETTINGS.cotHalfFov
        near == CAMERA_SETTINGS.near
        far == CAMERA_SETTINGS.far
    IN  IF zc = 0
        THEN [x |-> timesInfinity(xc), y |-> timesInfinity(yc),
              z |-> MinusInfinity]
        ELSE [x |-> Ratio(cot.num * camera.aspect.den * xc,
                          cot.den * camera.aspect.num * (-zc)),
              y |-> Ratio(cot.num * yc, cot.den * (-zc)),
              z |-> Ratio((far + near) * zc + 2 * far * near,
                          (far - near) * zc)]

\* projectToScreen(worldPos, camera, width, height)
projectToScreen(worldPos, camera, width, height) ==
    LET vector == project(worldPos, camera)
    IN  [x |-> toPixels(vector.x, width),
         y |-> toPixels(negated(vector.y), height)]

\* const VISUAL_JOINT_POSITIONS (index i is joint Ji)
VISUAL_JOINT_POSITIONS ==
    << <<0, 350, 0>>, <<0, 280, 10>>, <<-20, 220, 20>>,
       <<-40, 150, 25>>, <<-60, 90, 20>>, <<-80, 30, 10>> >>

\* bones[i] is undefined
NoBone == [x |-> 0, y |-> 0, z |-> 0, world |-> <<>>]

\* a bone at rest whose world position is pos
BoneIn(pos) == [x |-> 0, y |-> 0, z |-> 0, world |-> pos]

\* const bone = bones[i]; if (bone)
hasBone(bones, i) == i <= Len(bones) /\ bones[i] # NoBone

\* getJointWorldPositions(bones); the code's index is i - 1
getJointWorldPositions(bones) ==
    [i \in 1..6 |->
        IF hasBone(bones, i)
        THEN bones[i].world
        ELSE IF i <= Len(VISUAL_JOINT_POSITIONS)
             THEN VISUAL_JOINT_POSITIONS[i]
             ELSE <<0, (i - 1) * 50, 0>>]

\* calculateLinePositions(bones, camera, containerWidth, containerHeight,
\* labelPositions); the code's index is i - 1
calculateLinePositions(bones, camera, containerWidth, containerHeight, labelPositions) ==
    LET jointPositions == getJointWorldPositions(bones)
    IN  [i \in 1..Len(jointPositions) |->
            LET worldPos == jointPositions[i]
                screenPos == projectToScreen(worldPos, camera,
                                             containerWidth, containerHeight)
                vector == project(worldPos, camera)
                isVisible == lessThanOne(vector.z)
            IN  [startX |-> IF i <= Len(labelPositions)
                            THEN labelPositions[i].x
                            ELSE containerWidth - 50,
                 startY |-> IF i <= Len(labelPositions)
                            THEN labelPositions[i].y
                            ELSE 100 + (i - 1) * 40,
                 endX |-> screenPos.x, endY |-> screenPos.y,
                 visible |-> isVisible]]

\* animate(), lines 1139-1168: the new linePositions.  The label elements
\* are in the document, and labelContainerRef is set, while the labels are
\* shown; containerRef is set while the component is mounted.
animateLabels(show, bones, camera, container, labels, lines) ==
    IF show /\ Len(bones) > 0
    THEN calculateLinePositions(bones, camera, container.clientWidth,
                                container.clientHeight, labels)
    ELSE lines

\* what an operation on the labels leaves in the history
ProjObserved(op, labelPositions, ret) ==
    [op |-> op, labelPositions |-> labelPositions, ret |-> ret]

\* the container of the scene and the camera made for it
Container == [clientWidth |-> 400, clientHeight |-> 300]

CameraAt(pos, container) ==
    [position |-> pos,
     aspect |-> [num |-> container.clientWidth, den |-> container.clientHeight]]

\* the six label elements, as getBoundingClientRect() places them in the
\* container: stacked on its right side
LabelLayout ==
    [i \in 1..6 |-> [x |-> 330, y |-> 60 + (i - 1) * 36]]

\* no label is followed
ProjUnused ==
    /\ showJointLabels = TRUE
    /\ cameraRef = CameraAt(<<0, 0, 0>>, Container)
    /\ containerRef = Container
    /\ linePositions = <<>>
    /\ projObs = ProjObserved("none", <<>>, <<>>)

\* neither the classifier, nor the alert evaluator, nor the telemetry, nor
\* the joint labels
DataUnused == DetUnused /\ AlertUnused /\ TelUnused /\ ProjUnused

----------------------------------------------------------------------------
(* History of the controller: what the last operation saw and did, and the *)
(* run of consecutive tick() calls (no other operation between them) that  *)
(* sampled one same rate, begun in a state whose two streak counters were  *)
(* zero.                                                                   *)

NoRun == [rate |-> 0, tier |-> "low", len |-> 0, changes |-> 0]

NextRun(run, cap, low, high, rate, newCap) ==
    LET c == IF newCap # cap THEN 1 ELSE 0
    IN  IF run.len > 0 /\ run.len < RunCap /\ run.rate = rate
        THEN [run EXCEPT !.len = @ + 1, !.changes = @ + c]
        ELSE IF low = 0 /\ high = 0
        THEN [rate |-> rate, tier |-> cap, len |-> 1, changes |-> c]
        ELSE NoRun

\* what an operation other than tick() leaves in the history: it samples no
\* rate and calls no observer
Observed(op, ret) ==
    [op |-> op, fps |-> 0,
     pre |-> [capability |-> "low", lowFPSCount |-> 0, highFPSCount |-> 0],
     calls |-> <<>>, ret |-> ret]

\* the rates this.fpsMonitor.tick() may return, in tenths of a frame per
\* second: 15, 21 (0.7 x 30), 28.5 (0.95 x 30), 28.8 (0.96 x 30), 30,
\* 42 (0.7 x 60), 57 (0.95 x 60), 57.6 (0.96 x 60).  The monitor itself
\* returns whole rates; a rate such as 28.8 is a simulated one.
Rates == {150, 210, 285, 288, 300, 420, 570, 576}

\* window.devicePixelRatio values (hundredths)
DevicePixelRatios == {100, 300}

\* the spacing of tier changes: whether the tier has changed (any), the
\* ticks since it last did (since), and for the latest tick whether it
\* changed the tier ("none", "down" or "up") and, when an earlier change
\* came before, how many ticks after that change it came (gap); since and
\* gap stop counting at GapCap
NoSpacing == [any |-> FALSE, since |-> 0, changed |-> "none", gap |-> 0]

NextSpacing(sp, cap, newCap) ==
    LET elapsed == Min(sp.since + 1, GapCap)
    IN  IF newCap = cap
        THEN [any |-> sp.any, since |-> IF sp.any THEN elapsed ELSE 0,
              changed |-> "none", gap |-> 0]
        ELSE [any |-> TRUE, since |-> 0,
              changed |-> IF cap = "low" \/ newCap = "high" THEN "up" ELSE "down",
              gap |-> IF sp.any THEN elapsed ELSE 0]

CtlConstructed ==
    /\ currentCapability \in DeviceCapability
    /\ lowFPSCount = 0
    /\ highFPSCount = 0
    /\ onQualityChange = NoCallback
    /\ devicePixelRatio \in DevicePixelRatios
    /\ ctlObs = Observed("constructor", [none |-> TRUE])
    /\ ctlRun = NoRun
    /\ registered = {}
    /\ spacing = NoSpacing

\* no controller is followed
CtlUnused ==
    /\ currentCapability = "medium"
    /\ lowFPSCount = 0
    /\ highFPSCount = 0
    /\ onQualityChange = NoCallback
    /\ devicePixelRatio = 100
    /\ feedRate = 0
    /\ ctlObs = Observed("none", [none |-> TRUE])
    /\ ctlRun = NoRun
    /\ registered = {}
    /\ spacing = NoSpacing

InitCtl ==
    /\ CtlConstructed
    /\ feedRate = 0
    /\ MonUnused
    /\ LoopUnused
    /\ DataUnused

CtlTickWith(rate) ==
    LET t == tick(currentCapability, lowFPSCount, highFPSCount,
                  onQualityChange, devicePixelRatio, rate)
    IN  /\ currentCapability' = t.capability
        /\ lowFPSCount' = t.lowFPSCount
        /\ highFPSCount' = t.highFPSCount
        /\ ctlObs' = [op |-> "tick", fps |-> rate,
                      pre |-> [capability |-> currentCapability,
                               lowFPSCount |-> lowFPSCount,
                               highFPSCount |-> highFPSCount],
                      calls |-> t.calls, ret |-> t.ret]
        /\ ctlRun' = NextRun(ctlRun, currentCapability, lowFPSCount,
                             highFPSCount, rate, t.capability)
        /\ UNCHANGED <<onQualityChange, devicePixelRatio, feedRate, registered,
                       spacing>>
        /\ UNCHANGED <<monVars, loopVars, dataVars>>

CtlTick == \E rate \in Rates : CtlTickWith(rate)

OnQualityUpdate ==
    \E cb \in Callbacks :
        /\ onQualityChange' = cb
        /\ registered' = registered \cup {cb}
        /\ ctlObs' = Observed("onQualityUpdate", [none |-> TRUE])
        /\ ctlRun' = NoRun
        /\ UNCHANGED <<currentCapability, lowFPSCount, highFPSCount,
                       devicePixelRatio, feedRate, spacing>>
        /\ UNCHANGED <<monVars, loopVars, dataVars>>

GetSettings ==
    /\ ctlObs' = Observed("getSettings",
                  [settings |-> getSettings(currentCapability, devicePixelRatio)])
    /\ ctlRun' = NoRun
    /\ UNCHANGED <<currentCapability, lowFPSCount, highFPSCount,
                   onQualityChange, devicePixelRatio, feedRate, registered,
                   spacing>>
    /\ UNCHANGED <<monVars, loopVars, dataVars>>

GetCapability ==
    /\ ctlObs' = Observed("getCapability",
                  [capability |-> getCapability(currentCapability)])
    /\ ctlRun' = NoRun
    /\ UNCHANGED <<currentCapability, lowFPSCount, highFPSCount,
                   onQualityChange, devicePixelRatio, feedRate, registered,
                   spacing>>
    /\ UNCHANGED <<monVars, loopVars, dataVars>>

NextCtl == CtlTick \/ OnQualityUpdate \/ GetSettings \/ GetCapability

SpecCtl == InitCtl /\ [][NextCtl]_vars

----------------------------------------------------------------------------
(* The controller under a constant feed: every tick() samples the same     *)
(* rate, forever (the rendering loop calls tick() once per frame for as    *)
(* long as the session lives, hence the weak fairness of the tick).        *)

\* the whole rates among Rates: what FPSMonitor.tick() can return
WholeRates == {r \in Rates : r % 10 = 0}

InitConst ==
    /\ CtlConstructed
    /\ feedRate \in WholeRates
    /\ MonUnused
    /\ LoopUnused
    /\ DataUnused

TickConst == CtlTickWith(feedRate)

SpecConst == InitConst /\ [][TickConst]_vars /\ WF_vars(TickConst)

----------------------------------------------------------------------------
(* FPSMonitor on its own: ticks at any of the frame durations, reset(),    *)
(* onUpdate() and getFPS() in any order.                                   *)

InitMon ==
    /\ MonConstructed
    /\ CtlUnused
    /\ LoopUnused
    /\ DataUnused

\* tick(), d ms after the previous call (or after construction)
MonTick ==
    \E d \in FrameDurations :
        /\ monTicks < MaxTicks
        /\ now' = now + d
        /\ LET delta == now' - lastTime
               sample == instantFPS(delta)
               window == push(frames, sample, sampleSize)
               rate == RoundedMean(SumFrames(window), Len(window))
           IN  /\ lastTime' = now'
               /\ frames' = window
               /\ fps' = rate
               /\ monHist' = Append(monHist, sample)
               /\ monRun' = IF monRun.len > 0 /\ monRun.delta = delta
                            THEN [monRun EXCEPT !.len = @ + 1]
                            ELSE [delta |-> delta, len |-> 1]
               /\ monObs' = [op |-> "tick", pre |-> frames,
                             calls |-> frameCalls(frameCallback, rate),
                             ret |-> rate]
        /\ monTicks' = monTicks + 1
        /\ UNCHANGED <<frameCallback, sampleSize>>
        /\ UNCHANGED <<ctlVars, loopVars, dataVars>>

\* getFPS()
MonGetFPS ==
    /\ monObs' = MonObserved("getFPS", fps)
    /\ UNCHANGED <<frames, lastTime, fps, frameCallback, sampleSize, now,
                   monHist, monTicks, monRun>>
    /\ UNCHANGED <<ctlVars, loopVars, dataVars>>

\* onUpdate(callback)
MonOnUpdate ==
    \E cb \in Callbacks :
        /\ frameCallback' = cb
        /\ monObs' = MonObserved("onUpdate", 0)
        /\ UNCHANGED <<frames, lastTime, fps, sampleSize, now,
                       monHist, monTicks, monRun>>
        /\ UNCHANGED <<ctlVars, loopVars, dataVars>>

\* reset()
MonReset ==
    /\ frames' = <<>>
    /\ fps' = 0
    /\ monHist' = <<>>
    /\ monRun' = NoFrameRun
    /\ monObs' = MonObserved("reset", 0)
    /\ UNCHANGED <<lastTime, frameCallback, sampleSize, now, monTicks>>
    /\ UNCHANGED <<ctlVars, loopVars, dataVars>>

NextMon == MonTick \/ MonGetFPS \/ MonOnUpdate \/ MonReset

SpecMon == InitMon /\ [][NextMon]_vars

----------------------------------------------------------------------------
(* A MotorScene session: display frames, pause toggles, changes of the     *)
(* callback props, the effects React runs after each commit, unmount.      *)

InitLoop ==
    /\ LoopMounted
    /\ CtlUnused
    /\ MonUnused
    /\ DataUnused

\* React runs the effects of the latest commit.  On the first commit
\* initScene() builds the scene and sets isInitialized (a new render
\* follows) and the loop effect, run with isInitialized = false, starts
\* nothing.  Later the loop effect runs again whenever isInitialized or
\* animate changed: its cleanup cancels the request held by
\* animationIdRef, then animate() is called directly.
FlushEffects ==
    /\ mounted /\ effectsPending
    /\ LET a == animateOf(isPaused, callbackProps)
           deps == [isInitialized |-> isInitialized, animate |-> a]
       IN  IF ~isInitialized
           THEN /\ sceneRef' = TRUE
                /\ isInitialized' = TRUE
                /\ effectDeps' = deps
                /\ effectsPending' = TRUE
                /\ UNCHANGED <<requests, animationIdRef, nextId, ticksInFrame>>
           ELSE /\ effectsPending' = FALSE
                /\ effectDeps' = deps
                /\ UNCHANGED <<sceneRef, isInitialized>>
                /\ IF deps # effectDeps
                   THEN /\ nextId <= MaxRequests
                        /\ SetLoopState(animate(loopCleanup(LoopState), a, sceneRef))
                   ELSE UNCHANGED <<requests, animationIdRef, nextId, ticksInFrame>>
    /\ UNCHANGED <<mounted, isPaused, callbackProps, frameSeen>>
    /\ UNCHANGED <<ctlVars, monVars, dataVars>>

\* a display frame: the browser runs the pending frame callbacks
Frame ==
    /\ nextId + Cardinality(requests) <= MaxRequests + 1
    /\ SetLoopState(runCallbacks([LoopState EXCEPT !.requests = {},
                                                   !.ticksInFrame = 0],
                                 requests, sceneRef))
    /\ frameSeen' = (frameSeen \/ requests # {})
    /\ UNCHANGED <<mounted, isInitialized, isPaused, callbackProps, sceneRef,
                   effectDeps, effectsPending>>
    /\ UNCHANGED <<ctlVars, monVars, dataVars>>

\* Home.togglePause (or handleReset while paused): the prop isPaused
\* changes and MotorScene renders again
TogglePause ==
    /\ mounted /\ ~effectsPending
    /\ isPaused' = ~isPaused
    /\ effectsPending' = TRUE
    /\ UNCHANGED <<mounted, isInitialized, callbackProps, sceneRef, effectDeps,
                   animationIdRef, requests, nextId, ticksInFrame, frameSeen>>
    /\ UNCHANGED <<ctlVars, monVars, dataVars>>

\* a parent passes new onJointAnglesUpdate / onSensorDataUpdate functions
ChangeCallbackProps ==
    /\ mounted /\ ~effectsPending
    /\ callbackProps < MaxPropChanges
    /\ callbackProps' = callbackProps + 1
    /\ effectsPending' = TRUE
    /\ UNCHANGED <<mounted, isInitialized, isPaused, sceneRef, effectDeps,
                   animationIdRef, requests, nextId, ticksInFrame, frameSeen>>
    /\ UNCHANGED <<ctlVars, monVars, dataVars>>

\* unmount: React runs the cleanup of the loop effect
Unmount ==
    /\ mounted
    /\ mounted' = FALSE
    /\ effectsPending' = FALSE
    /\ SetLoopState(loopCleanup(LoopState))
    /\ UNCHANGED <<isInitialized, isPaused, callbackProps, sceneRef, effectDeps,
                   frameSeen>>
    /\ UNCHANGED <<ctlVars, monVars, dataVars>>

NextLoop == FlushEffects \/ Frame \/ TogglePause \/ ChangeCallbackProps \/ Unmount

SpecLoop == InitLoop /\ [][NextLoop]_vars

----------------------------------------------------------------------------
(* detectDeviceCapability applied to every platform of the model *)

\* neither the controller, nor a monitor of its own, nor a scene session
EngineUnused == CtlUnused /\ MonUnused /\ LoopUnused

InitDetect ==
    /\ platform \in Platforms
    /\ detected = NotDetected
    /\ qualityLevel = "medium"
    /\ AlertUnused
    /\ TelUnused
    /\ ProjUnused
    /\ EngineUnused

DetectDeviceCapability ==
    /\ detected' = detectDeviceCapability(platform)
    /\ UNCHANGED <<platform, qualityLevel, alertVars, telVars, projVars, engineVars>>

SpecDetect == InitDetect /\ [][DetectDeviceCapability]_vars

----------------------------------------------------------------------------
(* useAlertDetection applied to every sensor sample of the model *)

InitAlert ==
    /\ data \in SensorSamples
    /\ detection = NoDetection
    /\ DetUnused
    /\ TelUnused
    /\ ProjUnused
    /\ EngineUnused

UseAlertDetection ==
    /\ LET ret == useAlertDetection(data)
       IN  detection' = [called |-> TRUE, alerts |-> ret.alerts,
                         hasWarning |-> ret.hasWarning,
                         hasDanger |-> ret.hasDanger,
                         isOverheating |-> ret.isOverheating]
    /\ UNCHANGED <<data, detVars, telVars, projVars, engineVars>>

SpecAlert == InitAlert /\ [][UseAlertDetection]_vars

----------------------------------------------------------------------------
(* The sensor synthesizer on its own: calculateSensorData() called with    *)
(* any angle sets, any number of times, from the seeded state.             *)

\* the angle sets passed: rest; one joint at 29, at 30; five small moves
\* of both signs and one jump of 60; every joint at 29
AngleSets == {<<0, 0, 0, 0, 0, 0>>,
              <<29, 0, 0, 0, 0, 0>>,
              <<30, 0, 0, 0, 0, 0>>,
              <<1, -2, 3, -4, 5, 60>>,
              <<29, 29, 29, 29, 29, 29>>}

InitSynth ==
    /\ TelConstructed
    /\ holdPose = <<>>
    /\ DetUnused
    /\ AlertUnused
    /\ ProjUnused
    /\ EngineUnused

CalculateSensorData ==
    \E currentAngles \in AngleSets :
        LET out == calculateSensorData(currentAngles, prevAnglesRef,
                                       smoothedSensorRef)
        IN  /\ smoothedSensorRef' = out.smoothed
            /\ prevAnglesRef' = out.prevAngles
            /\ telObs' = [TelObserved("calculateSensorData") EXCEPT
                            !.pre = TelPre,
                            !.current = currentAngles,
                            !.emittedSensor = TRUE,
                            !.totalAngularVelocity = out.totalAngularVelocity,
                            !.rawLoad = out.rawLoad,
                            !.rawSpeed = out.rawSpeed]
            /\ UNCHANGED <<loadingStatus, bonesRef, mixerRef, smoothedAnglesRef,
                           jointAngles, sensorData, holdPose, telTicks,
                           alertSeen>>
            /\ UNCHANGED <<detVars, alertVars, projVars, engineVars>>

SpecSynth == InitSynth /\ [][CalculateSensorData]_vars

----------------------------------------------------------------------------
(* A telemetry session of MotorScene under Home: the model loads (with or  *)
(* without a skeleton and animations) or fails to load, and animate() runs *)
(* paused or not while the animation moves the bones through any poses.    *)

\* the model loader's success callback: n tracked bones at the angles of
\* pose, a mixer when the model has animations
LoadedWith(n, animations, pose) ==
    /\ loadingStatus = "loading"
    /\ loadingStatus' = "loaded"
    /\ bonesRef' = [i \in 1..n |-> BoneAt(pose[i])]
    /\ mixerRef' = animations
    /\ telObs' = TelObserved("loaded")
    /\ UNCHANGED <<smoothedAnglesRef, prevAnglesRef, smoothedSensorRef,
                   jointAngles, sensorData, holdPose, telTicks, alertSeen>>
    /\ UNCHANGED <<detVars, alertVars, projVars, engineVars>>

\* the latest operation was a tick of a paused scene
AfterPausedTick == telObs.op = "animate" /\ telObs.paused

\* animate() with Home's props (both callbacks given), then Home's render
\* with the states the callbacks set
AnimateWith(paused, pose) ==
    LET out == animateTelemetry(TelState, paused, TRUE, TRUE, pose)
    IN  /\ bonesRef' = out.bones
        /\ smoothedAnglesRef' = out.smoothedAngles
        /\ prevAnglesRef' = out.prevAngles
        /\ smoothedSensorRef' = out.smoothedSensor
        /\ jointAngles' = out.jointAngles
        /\ sensorData' = out.sensorData
        /\ telObs' = [TelObserved("animate") EXCEPT
                        !.paused = paused,
                        !.pre = TelPre,
                        !.extracted = out.extracted,
                        !.raw = out.raw,
                        !.current = IF out.emittedSensor
                                    THEN out.smoothedAngles ELSE NoAngles,
                        !.emittedAngles = out.emittedAngles,
                        !.emittedSensor = out.emittedSensor,
                        !.totalAngularVelocity = out.totalAngularVelocity,
                        !.rawLoad = out.rawLoad,
                        !.rawSpeed = out.rawSpeed,
                        !.monitorTicks = out.monitorTicks,
                        !.resumed = (~paused /\ AfterPausedTick),
                        !.held = IF AfterPausedTick THEN telObs.held
                                 ELSE IF paused THEN TelPre ELSE NoTelPre]
        /\ telTicks' = telTicks + 1
        /\ alertSeen' = (alertSeen
                         \/ useAlertDetection(out.sensorData).alerts # <<>>)
        /\ UNCHANGED <<loadingStatus, mixerRef, holdPose>>
        /\ UNCHANGED <<detVars, alertVars, projVars, engineVars>>

\* the poses the animation passes through
TelPoses == {<<0, 0, 0, 0, 0, 0>>,
             <<180, 180, 180, -180, -180, -180>>,
             <<3, -3, 4, -4, 10, 45>>}

\* the lengths of the bone chain found in the model
TrackedCounts == {0, 3, 6}

InitTel ==
    /\ TelConstructed
    /\ holdPose = <<>>
    /\ DetUnused
    /\ AlertUnused
    /\ ProjUnused
    /\ EngineUnused

ModelLoaded ==
    \E n \in TrackedCounts, animations \in BOOLEAN :
        LoadedWith(n, animations, ZeroAngles)

\* the model loader's error callback: the procedural model, no bones and
\* no mixer
ModelFailed ==
    /\ loadingStatus = "loading"
    /\ loadingStatus' = "error"
    /\ telObs' = TelObserved("error")
    /\ UNCHANGED <<bonesRef, mixerRef, smoothedAnglesRef, prevAnglesRef,
                   smoothedSensorRef, jointAngles, sensorData, holdPose,
                   telTicks, alertSeen>>
    /\ UNCHANGED <<detVars, alertVars, projVars, engineVars>>

AnimateTick ==
    \E paused \in BOOLEAN, pose \in TelPoses :
        /\ telTicks < MaxAnimateTicks
        /\ AnimateWith(paused, pose)

NextTel == ModelLoaded \/ ModelFailed \/ AnimateTick

SpecTel == InitTel /\ [][NextTel]_vars

----------------------------------------------------------------------------
(* The hold scenario: the model loads with six tracked bones and           *)
(* animations, the bones hold one pose, and animate() runs HoldTicks times *)
(* unpaused.                                                               *)

\* the poses held
HoldPoses == {<<0, 0, 0, 0, 0, 0>>,
              <<1, -1, 2, -2, 3, -3>>,
              <<3, -3, 4, -4, 10, 45>>,
              <<10, -10, 45, -45, 90, -90>>,
              <<180, 180, 180, 180, 180, 180>>,
              <<-180, -180, -180, -180, -180, -180>>}

InitHold ==
    /\ TelConstructed
    /\ holdPose \in HoldPoses
    /\ DetUnused
    /\ AlertUnused
    /\ ProjUnused
    /\ EngineUnused

HoldLoaded == LoadedWith(6, TRUE, holdPose)

HoldTick ==
    /\ loadingStatus = "loaded"
    /\ telTicks < HoldTicks
    /\ AnimateWith(FALSE, holdPose)

NextHold == HoldLoaded \/ HoldTick

SpecHold == InitHold /\ [][NextHold]_vars

----------------------------------------------------------------------------
(* The joint labels of a mounted scene: the model has loaded with any      *)
(* tracked bones, animate() places the connector lines, the user shows or  *)
(* hides the labels, and calculateLinePositions is applied to the tracked  *)
(* bones with any number of label positions.                               *)

\* where the camera stands; it looks down the -z axis
CameraPositions == {<<0, 200, 430>>}

\* where the animation leaves the six tracked bones: all in front of the
\* camera; the third at the camera's position; the last two behind it
ChainPoses ==
    {<< <<0, 340, 0>>, <<0, 270, 10>>, <<-10, 210, 20>>,
        <<-30, 160, 30>>, <<-50, 100, 20>>, <<-70, 40, 10>> >>,
     << <<0, 340, 0>>, <<0, 270, 200>>, <<0, 200, 430>>,
        <<-30, 160, 300>>, <<-50, 100, 200>>, <<-70, 40, 100>> >>,
     << <<0, 340, 0>>, <<0, 270, 100>>, <<-10, 210, 250>>,
        <<-30, 160, 400>>, <<-50, 100, 500>>, <<-70, 40, 600>> >>}

\* the bone arrays: up to six entries, any of them undefined
BoneArrays ==
    {[i \in 1..n |-> IF i \in missing THEN NoBone ELSE BoneIn(pose[i])] :
        n \in 0..6, missing \in SUBSET (1..6), pose \in ChainPoses}

InitProj ==
    /\ loadingStatus = "loaded"
    /\ bonesRef \in BoneArrays
    /\ mixerRef = FALSE
    /\ smoothedAnglesRef = ZeroAngles
    /\ prevAnglesRef = NoAngles
    /\ smoothedSensorRef = SeededSensor
    /\ jointAngles = ZeroAngles
    /\ sensorData = SeededSensor
    /\ telObs = TelObserved("loaded")
    /\ holdPose = <<>>
    /\ telTicks = 0
    /\ alertSeen = FALSE
    /\ showJointLabels = TRUE
    /\ containerRef = Container
    /\ cameraRef \in {CameraAt(pos, Container) : pos \in CameraPositions}
    /\ linePositions = <<>>
    /\ projObs = ProjObserved("constructor", <<>>, <<>>)
    /\ DetUnused
    /\ AlertUnused
    /\ EngineUnused

\* animate(), lines 1139-1168
AnimateLabels ==
    /\ linePositions' = animateLabels(showJointLabels, bonesRef, cameraRef,
                                      containerRef, LabelLayout, linePositions)
    /\ projObs' = ProjObserved("animate", LabelLayout, linePositions')
    /\ UNCHANGED <<showJointLabels, cameraRef, containerRef>>
    /\ UNCHANGED <<detVars, alertVars, telVars, engineVars>>

\* the labels button: setShowJointLabels(!showJointLabels)
ToggleJointLabels ==
    /\ showJointLabels' = ~showJointLabels
    /\ projObs' = ProjObserved("toggle", <<>>, <<>>)
    /\ UNCHANGED <<cameraRef, containerRef, linePositions>>
    /\ UNCHANGED <<detVars, alertVars, telVars, engineVars>>

\* calculateLinePositions applied to the tracked bones and the first n
\* label positions
CalculateLinePositions ==
    \E n \in 0..6 :
        LET labelPositions == SubSeq(LabelLayout, 1, n)
        IN  /\ projObs' = ProjObserved("calculateLinePositions", labelPositions,
                              calculateLinePositions(bonesRef, cameraRef,
                                  containerRef.clientWidth,
                                  containerRef.clientHeight, labelPositions))
            /\ UNCHANGED <<showJointLabels, cameraRef, containerRef,
                           linePositions>>
            /\ UNCHANGED <<detVars, alertVars, telVars, engineVars>>

NextProj == AnimateLabels \/ ToggleJointLabels \/ CalculateLinePositions

SpecProj == InitProj /\ [][NextProj]_vars

----------------------------------------------------------------------------
(* extractJointAngles applied to bone arrays of every length up to six, in *)
(* which one bone is rotated about any axes.                               *)

\* the Euler components of the rotated bone, in half degrees
EulerValues == {-360, -180, 0, 90, 180}

\* the bone arrays: n bones at rest, but the j-th rotated
RotatedArrays ==
    {[i \in 1..n |-> IF i = j THEN [x |-> ex, y |-> ey, z |-> ez] ELSE BoneAt(0)] :
        n \in 0..6, j \in 1..6,
        ex \in EulerValues, ey \in EulerValues, ez \in EulerValues}

InitBone ==
    /\ loadingStatus = "loaded"
    /\ bonesRef \in RotatedArrays
    /\ mixerRef = FALSE
    /\ smoothedAnglesRef = ZeroAngles
    /\ prevAnglesRef = NoAngles
    /\ smoothedSensorRef = SeededSensor
    /\ jointAngles = ZeroAngles
    /\ sensorData = SeededSensor
    /\ telObs = TelObserved("loaded")
    /\ holdPose = <<>>
    /\ telTicks = 0
    /\ alertSeen = FALSE
    /\ DetUnused
    /\ AlertUnused
    /\ ProjUnused
    /\ EngineUnused

ExtractJointAngles ==
    /\ smoothedAnglesRef' = extractJointAngles(bonesRef, smoothedAnglesRef)
    /\ telObs' = [TelObserved("extractJointAngles") EXCEPT
                    !.pre = TelPre, !.extracted = TRUE,
                    !.raw = rawAnglesOf(bonesRef)]
    /\ UNCHANGED <<loadingStatus, bonesRef, mixerRef, prevAnglesRef,
                   smoothedSensorRef, jointAngles, sensorData, holdPose,
                   telTicks, alertSeen>>
    /\ UNCHANGED <<detVars, alertVars, projVars, engineVars>>

SpecBone == InitBone /\ [][ExtractJointAngles]_vars

----------------------------------------------------------------------------
(* The controller ticked with any rates, its history the spacing of the    *)
(* tier changes.                                                           *)

\* rates in tenths of fps: below both bands; in the dead band of target 30
\* and below that of target 60; above the band of target 30 and in the dead
\* band of target 60; above both bands
GapRates == {150, 250, 500, 600}

InitGap ==
    /\ CtlConstructed
    /\ devicePixelRatio = 100
    /\ feedRate = 0
    /\ MonUnused
    /\ LoopUnused
    /\ DataUnused

GapTick ==
    \E rate \in GapRates :
        LET t == tick(currentCapability, lowFPSCount, highFPSCount,
                      onQualityChange, devicePixelRatio, rate)
        IN  /\ currentCapability' = t.capability
            /\ lowFPSCount' = t.lowFPSCount
            /\ highFPSCount' = t.highFPSCount
            /\ spacing' = NextSpacing(spacing, currentCapability, t.capability)
            /\ UNCHANGED <<onQualityChange, devicePixelRatio, feedRate, ctlObs,
                           ctlRun, registered>>
            /\ UNCHANGED <<monVars, loopVars, dataVars>>

SpecGap == InitGap /\ [][GapTick]_vars

----------------------------------------------------------------------------
(* initScene() on every browser platform and display of the model: the     *)
(* quality level it records from getQualitySettings().                     *)

\* window.devicePixelRatio in hundredths; 0 when the window reports none
DisplayPixelRatios == {0, 100, 150, 200, 300}

InitQuality ==
    /\ platform \in Platforms \ {NoPlatform}
    /\ detected = NotDetected
    /\ qualityLevel = "medium"
    /\ currentCapability = "medium"
    /\ lowFPSCount = 0
    /\ highFPSCount = 0
    /\ onQualityChange = NoCallback
    /\ devicePixelRatio \in DisplayPixelRatios
    /\ feedRate = 0
    /\ ctlObs = Observed("none", [none |-> TRUE])
    /\ ctlRun = NoRun
    /\ registered = {}
    /\ spacing = NoSpacing
    /\ MonUnused
    /\ LoopUnused
    /\ AlertUnused
    /\ TelUnused
    /\ ProjUnused

\* initScene(), lines 876-884
InitSceneQuality ==
    /\ ~detected.done
    /\ LET qualitySettings == getQualitySettings(NoCapability, platform,
                                                 devicePixelRatio)
       IN  /\ qualityLevel' = qualityLevelOf(qualitySettings.settings.pixelRatio)
           /\ detected' = detectDeviceCapability(platform)
    /\ UNCHANGED <<platform, alertVars, telVars, projVars, engineVars>>

SpecQuality == InitQuality /\ [][InitSceneQuality]_vars

----------------------------------------------------------------------------
(* Claims about AdaptiveQualityController, checked under SpecCtl *)

\* the tier order low < medium < high
Rank(cap) == CASE cap = "low" -> 0 [] cap = "medium" -> 1 [] cap = "high" -> 2

TargetOf(cap) == QUALITY_PRESETS(cap, devicePixelRatio).targetFPS

\* rate r (tenths) is pct percent of target t
IsPercentOf(r, pct, t) == r * 100 = t * 10 * pct
BelowBand(r, t) == r * 100 < t * 10 * 70
AboveBand(r, t) == r * 100 > t * 10 * 95
InDeadBand(r, t) == ~BelowBand(r, t) /\ ~AboveBand(r, t)

TickDone == ctlObs.op = "tick"
TierChanged == currentCapability # ctlObs.pre.capability

\* C1: in a run of ticks that starts above `low` with both streak counters
\* zero and samples 50% of the starting tier's target every time, no tier
\* change happens in the first 120 ticks and the 121st tick makes the one
\* and only change, a downgrade by one level.
C1_DowngradeOn121st ==
    (/\ ctlRun.len > 0
     /\ ctlRun.tier # "low"
     /\ IsPercentOf(ctlRun.rate, 50, TargetOf(ctlRun.tier)))
    => /\ ctlRun.len < 121 =>
            ctlRun.changes = 0 /\ currentCapability = ctlRun.tier
       /\ ctlRun.len = 121 =>
            /\ ctlRun.changes = 1
            /\ TickDone /\ TierChanged
            /\ Rank(currentCapability) = Rank(ctlRun.tier) - 1

C1_Witness ==
    /\ ctlRun.len = 121
    /\ ctlRun.tier # "low"
    /\ IsPercentOf(ctlRun.rate, 50, TargetOf(ctlRun.tier))
    /\ ctlRun.changes = 1

\* C2: in a run of ticks that starts below `high` with both streak counters
\* zero and samples 96% of the starting tier's target every time, no tier
\* change happens in the first 300 ticks and the 301st tick makes the one
\* and only change, an upgrade by one level.
C2_UpgradeOn301st ==
    (/\ ctlRun.len > 0
     /\ ctlRun.tier # "high"
     /\ IsPercentOf(ctlRun.rate, 96, TargetOf(ctlRun.tier)))
    => /\ ctlRun.len < 301 =>
            ctlRun.changes = 0 /\ currentCapability = ctlRun.tier
       /\ ctlRun.len = 301 =>
            /\ ctlRun.changes = 1
            /\ TickDone /\ TierChanged
            /\ Rank(currentCapability) = Rank(ctlRun.tier) + 1

C2_Witness ==
    /\ ctlRun.len = 301
    /\ ctlRun.tier # "high"
    /\ IsPercentOf(ctlRun.rate, 96, TargetOf(ctlRun.tier))
    /\ ctlRun.changes = 1

\* C3: a tick whose sampled rate r satisfies 0.70 x target <= r <=
\* 0.95 x target, for the target of the tier current before the tick,
\* leaves the tier as it was and notifies no observer, from every reachable
\* state (so any number of such ticks in a row never transitions).
C3_DeadBandNeverTransitions ==
    (TickDone /\ InDeadBand(ctlObs.fps, TargetOf(ctlObs.pre.capability)))
    => /\ currentCapability = ctlObs.pre.capability
       /\ ctlObs.calls = <<>>

\* a dead-band tick at the lower edge of the band, taken when one more low
\* tick would have downgraded, with an observer registered
C3_Witness ==
    /\ TickDone
    /\ IsPercentOf(ctlObs.fps, 70, TargetOf(ctlObs.pre.capability))
    /\ ctlObs.pre.capability # "low"
    /\ ctlObs.pre.lowFPSCount = 120
    /\ onQualityChange # NoCallback
    /\ currentCapability = ctlObs.pre.capability

\* C5: one tick moves the tier by at most one level; a downgrade that is
\* triggered at `low` and an upgrade that is triggered at `high` leave the
\* tier unchanged and still reset both streak counters.
C5_AtMostOneLevelPerTick ==
    TickDone =>
      LET pre == ctlObs.pre
          t == TargetOf(pre.capability)
      IN  /\ Rank(currentCapability) - Rank(pre.capability) \in {-1, 0, 1}
          /\ (/\ pre.capability = "low"
              /\ BelowBand(ctlObs.fps, t)
              /\ pre.lowFPSCount + 1 > 120)
             => /\ currentCapability = "low"
                /\ lowFPSCount = 0 /\ highFPSCount = 0
          /\ (/\ pre.capability = "high"
              /\ AboveBand(ctlObs.fps, t)
              /\ pre.highFPSCount + 1 > 300)
             => /\ currentCapability = "high"
                /\ lowFPSCount = 0 /\ highFPSCount = 0

\* a downgrade triggered at the floor
C5_Witness ==
    /\ TickDone
    /\ ctlObs.pre.capability = "low"
    /\ BelowBand(ctlObs.fps, TargetOf("low"))
    /\ ctlObs.pre.lowFPSCount = 120
    /\ currentCapability = "low"
    /\ lowFPSCount = 0

\* the calls of the last operation made to callback cb
CallsTo(cb) == {i \in DOMAIN ctlObs.calls : ctlObs.calls[i].callback = cb}

NewPreset == QUALITY_PRESETS(currentCapability, devicePixelRatio)

\* C6 as stated: on a tier change every observer that was ever registered
\* through onQualityUpdate() is invoked exactly once with the new tier's
\* preset, and a tick without a tier change invokes no observer.
C6_EveryRegisteredObserverNotified ==
    TickDone =>
      IF TierChanged
      THEN \A cb \in registered :
              /\ Cardinality(CallsTo(cb)) = 1
              /\ \A i \in CallsTo(cb) : ctlObs.calls[i].settings = NewPreset
      ELSE ctlObs.calls = <<>>

\* C6 amended: on a tier change the observer registered most recently (the
\* one callback slot the controller keeps) is invoked exactly once with the
\* new tier's preset, and no other observer is invoked; a tick without a
\* tier change invokes no observer.
C6_CurrentObserverNotified ==
    TickDone =>
      IF TierChanged /\ onQualityChange # NoCallback
      THEN ctlObs.calls =
             <<[callback |-> onQualityChange, settings |-> NewPreset]>>
      ELSE ctlObs.calls = <<>>

\* a tier change with two observers registered, one call made
C6_Witness ==
    /\ TickDone /\ TierChanged
    /\ Cardinality(registered) = 2
    /\ Len(ctlObs.calls) = 1

\* C7: tick() returns the tier the controller holds after the tick and the
\* preset of that tier, getSettings() returns the preset of the current
\* tier and getCapability() the current tier; every settings value returned
\* is one of the three presets.
C7_SettingsFromPresetTable ==
    LET presets == {QUALITY_PRESETS(t, devicePixelRatio) : t \in DeviceCapability}
    IN  /\ TickDone =>
              /\ ctlObs.ret.capability = currentCapability
              /\ ctlObs.ret.settings = NewPreset
              /\ ctlObs.ret.settings \in presets
        /\ ctlObs.op = "getSettings" =>
              /\ ctlObs.ret.settings = NewPreset
              /\ ctlObs.ret.settings \in presets
        /\ ctlObs.op = "getCapability" =>
              ctlObs.ret.capability = currentCapability

\* a tick that changed the tier and returned the new tier's preset
C7_Witness ==
    /\ TickDone /\ TierChanged
    /\ ctlObs.ret.settings = NewPreset
    /\ ctlObs.ret.settings # QUALITY_PRESETS(ctlObs.pre.capability, devicePixelRatio)

----------------------------------------------------------------------------
(* Claim about the controller under a constant feed, checked under SpecConst *)

\* C4: for every initial tier and every constant sampled rate, from some
\* tick on the tier never changes again.
C4_TierEventuallyStable ==
    <>[][currentCapability' = currentCapability]_vars

----------------------------------------------------------------------------
(* Claims about FPSMonitor, checked under SpecMon *)

\* the last n elements of a sequence
LastN(seq, n) == SubSeq(seq, Len(seq) - n + 1, Len(seq))

\* C8: the window never holds more than sampleSize samples; it is always
\* the most recent min(n, sampleSize) of the n samples pushed since
\* construction or reset(), in arrival order; a tick on a full window
\* removes exactly one sample, the oldest.
C8_WindowBoundedFifo ==
    /\ Len(frames) <= sampleSize
    /\ frames = LastN(monHist, Min(Len(monHist), sampleSize))
    /\ monObs.op = "tick" =>
          LET pre == monObs.pre
              sample == monHist[Len(monHist)]
          IN  IF Len(pre) + 1 > sampleSize
              THEN frames = Append(Tail(pre), sample)
              ELSE frames = Append(pre, sample)
    /\ monObs.op = "reset" => frames = <<>>

\* a tick on a full window whose oldest and newest samples differ
C8_Witness ==
    /\ monObs.op = "tick"
    /\ sampleSize >= 2
    /\ Len(monObs.pre) = sampleSize
    /\ monObs.pre[1] # monObs.pre[sampleSize]
    /\ frames[sampleSize] # monObs.pre[1]
    /\ frames = Append(Tail(monObs.pre), monHist[Len(monHist)])

\* 1000 / d in tenths of a frame per second
ExactRateOf(d) == IF d = 0 THEN Infinity ELSE 10000 \div d

\* 1000 / d rounded to the nearest whole rate, in tenths
WholeRateOf(d) ==
    IF d = 0 THEN Infinity ELSE ((ExactRateOf(d) + 5) \div 10) * 10

\* the rate the monitor reports: its fps field, which tick() and getFPS()
\* return
ReportsRate(r) ==
    /\ fps = r
    /\ monObs.op \in {"tick", "getFPS"} => monObs.ret = r

----------------------------------------------------------------------------
(* Claim about the MotorScene session, checked under SpecLoop *)

\* the loop effect has started the animation loop
LoopStarted == mounted /\ effectDeps.isInitialized

\* C10: while the scene session runs its animation loop, FPSMonitor.tick()
\* is invoked exactly once between the beginning of a display frame and the
\* beginning of the next one, whatever pause toggles and callback-prop
\* changes restart the loop effect.
C10_OneTickPerFrame == (LoopStarted /\ frameSeen) => ticksInFrame = 1

----------------------------------------------------------------------------
(* Claims about detectDeviceCapability, checked under SpecDetect *)

\* cores and memory as the decision rules take them: 4 when not reported
ReportedOrFour(v) == IF v = NotReported THEN 4 ELSE v

\* the ordered decision policy
PolicyTier(mobile, cores, memory, gpu) ==
    IF mobile /\ memory < 4 THEN "low"
    ELSE IF cores >= 8 /\ memory >= 8 /\ gpu = "high" THEN "high"
    ELSE IF cores >= 4 /\ memory >= 4 THEN "medium"
    ELSE "low"

Classified == detected.done /\ platform.window

\* C11: on every platform, the tier returned is the first match of the
\* ordered policy (mobile and memory < 4: low; cores >= 8, memory >= 8 and
\* GPU signal high: high; cores >= 4 and memory >= 4: medium; else low)
\* over the mobile flag, the cores and memory (4 when not reported) and the
\* GPU signal; a mobile device with memory < 4 is never above low.
C11_OrderedFirstMatchPolicy ==
    Classified =>
      LET mobile == platform.userAgent \in MobileKeywords
          cores == ReportedOrFour(platform.hardwareConcurrency)
          memory == ReportedOrFour(platform.deviceMemory)
      IN  /\ ~detected.thrown
          /\ detected.capability =
                PolicyTier(mobile, cores, memory, detected.webglCapability)
          /\ (mobile /\ memory < 4) => detected.capability = "low"

\* a mobile device with 2 units of memory, 16 cores and a discrete GPU
C11_Witness ==
    /\ Classified
    /\ detected.isMobile
    /\ platform.deviceMemory = 2
    /\ platform.hardwareConcurrency = 16
    /\ detected.webglCapability = "high"
    /\ detected.capability = "low"

ProbeFailed == platform.probe.outcome \in {"noContext", "noExtension", "throws"}

\* C12 as stated: for every way the probe can fail (no rendering context,
\* no renderer-info extension, an exception inside the probe) the function
\* does not throw and the GPU signal fed to the rules is medium.
C12_ProbeFailureSignalsMedium ==
    (Classified /\ ProbeFailed)
    => /\ ~detected.thrown
       /\ detected.webglCapability = "medium"

\* C12 amended: for every way the probe can fail the function does not
\* throw; the GPU signal is medium when the context or the extension is
\* missing and low when the probe raised an exception; in all three cases
\* the tier returned is the one the policy gives for the signal medium.
C12_ProbeFailureNeverThrows ==
    (Classified /\ ProbeFailed)
    => /\ ~detected.thrown
       /\ detected.webglCapability =
             (IF platform.probe.outcome = "throws" THEN "low" ELSE "medium")
       /\ detected.capability =
             PolicyTier(detected.isMobile, detected.cpuCores,
                        detected.deviceMemory, "medium")

\* a probe that raised, on a desktop with 8 cores and 8 units of memory
C12_Witness ==
    /\ Classified
    /\ platform.probe.outcome = "throws"
    /\ ~detected.isMobile
    /\ detected.cpuCores = 8 /\ detected.deviceMemory = 8
    /\ ~detected.thrown
    /\ detected.webglCapability = "low"
    /\ detected.capability = "medium"

----------------------------------------------------------------------------
(* Claims about useAlertDetection, checked under SpecAlert *)

Metrics == {"jointLoad", "speed", "cycleTime"}

\* the alerts returned for one metric, of one type
AlertsOf(metric, type) ==
    {i \in DOMAIN detection.alerts :
        detection.alerts[i].sensor = metric /\ detection.alerts[i].type = type}

\* C13: for every sample and each metric, the list holds exactly one danger
\* alert and no warning alert for the metric when value >= danger
\* threshold, exactly one warning alert and no danger alert when warning
\* threshold <= value < danger threshold, and no alert for it otherwise;
\* so never two alerts for one metric and never more than three alerts.
C13_DangerSupersedesWarning ==
    detection.called =>
      /\ \A m \in Metrics :
            LET v == data[m]
                t == ALL_THRESHOLDS[m]
                dangers == Cardinality(AlertsOf(m, "danger"))
                warnings == Cardinality(AlertsOf(m, "warning"))
            IN  /\ v >= t.danger => dangers = 1 /\ warnings = 0
                /\ (v >= t.warning /\ v < t.danger) =>
                      dangers = 0 /\ warnings = 1
                /\ v < t.warning => dangers = 0 /\ warnings = 0
                /\ dangers + warnings <= 1
      /\ Len(detection.alerts) <= 3

\* load 90 (danger threshold 85, warning 70): one danger alert for load
C13_Witness ==
    /\ detection.called
    /\ data.jointLoad = 90
    /\ Cardinality(AlertsOf("jointLoad", "danger")) = 1
    /\ AlertsOf("jointLoad", "warning") = {}
    /\ Len(detection.alerts) = 3

\* C14: hasWarning is true iff the list holds an alert of type warning,
\* hasDanger iff it holds one of type danger, isOverheating equals
\* hasDanger; both flags are true only with alerts of different metrics.
C14_AggregateFlags ==
    detection.called =>
      LET alerts == detection.alerts
      IN  /\ detection.hasWarning <=>
                (\E i \in DOMAIN alerts : alerts[i].type = "warning")
          /\ detection.hasDanger <=>
                (\E i \in DOMAIN alerts : alerts[i].type = "danger")
          /\ detection.isOverheating = detection.hasDanger
          /\ (detection.hasWarning /\ detection.hasDanger) =>
                \E i, j \in DOMAIN alerts :
                    /\ alerts[i].type = "warning"
                    /\ alerts[j].type = "danger"
                    /\ alerts[i].sensor # alerts[j].sensor

\* a danger alert and no warning alert: hasDanger without hasWarning
C14_Witness ==
    /\ detection.called
    /\ detection.hasDanger /\ detection.isOverheating
    /\ ~detection.hasWarning
    /\ Len(detection.alerts) = 1

----------------------------------------------------------------------------
(* Claims about the sensor synthesizer, checked under SpecSynth *)

JointIndexes == 1..6

\* the sum of |current - previous| over the joints of js
RECURSIVE SumOfDeltas(_, _, _)
SumOfDeltas(js, current, previous) ==
    IF js = {}
    THEN 0
    ELSE LET j == CHOOSE k \in js : TRUE
         IN  Abs(current[j] - previous[j])
             + SumOfDeltas(js \ {j}, current, previous)

\* s is num / den rounded to the nearest whole number (den > 0)
IsRounded(s, num, den) ==
    /\ 2 * den * s - den <= 2 * num
    /\ 2 * num < 2 * den * s + den

Synthesized == telObs.op = "calculateSensorData"

\* C15: on a tick that has a previous angle set, the activity is the sum
\* of |current - previous| over exactly the joints whose delta is < 30 (a
\* delta of 30 or more is left out, every smaller one is counted); on a
\* tick with no previous set the activity is 0; after the tick the
\* previous set is the tick's current angle set.
C15_ActivitySumsSmallDeltas ==
    Synthesized =>
      LET current == telObs.current
          previous == telObs.pre.prevAngles
          small == {j \in JointIndexes :
                       Abs(current[j] - previous[j]) < 30}
      IN  /\ previous # NoAngles =>
                telObs.totalAngularVelocity
                   = SumOfDeltas(small, current, previous)
          /\ previous = NoAngles => telObs.totalAngularVelocity = 0
          /\ prevAnglesRef = current

\* five small deltas (1, 2, 3, 4, 5) and one jump of 60: activity 15
C15_Witness ==
    /\ Synthesized
    /\ telObs.pre.prevAngles = ZeroAngles
    /\ telObs.current = <<1, -2, 3, -4, 5, 60>>
    /\ telObs.totalAngularVelocity = 15
    /\ prevAnglesRef = telObs.current

\* C16: in every state reachable from the seeded sensor state by any
\* sequence of synthesizer ticks, the smoothed load is within 0..100, the
\* smoothed speed is at most 800 and the cycle time is 12; each tick's raw
\* load is min(80, 20 + 3 x activity), its raw speed
\* min(800, 100 + 50 x activity), and each smoothed value is
\* previous + 0.10 x (raw - previous), to the nearest whole number.
C16_SensorSampleBounds ==
    /\ smoothedSensorRef.jointLoad >= 0
    /\ smoothedSensorRef.jointLoad <= 100
    /\ smoothedSensorRef.speed <= 800
    /\ smoothedSensorRef.cycleTime = 12
    /\ Synthesized =>
          LET activity == telObs.totalAngularVelocity
              before == telObs.pre.smoothedSensor
          IN  /\ telObs.rawLoad = Min(80, 20 + 3 * activity)
              /\ telObs.rawSpeed = Min(800, 100 + 50 * activity)
              /\ IsRounded(smoothedSensorRef.jointLoad,
                           10 * before.jointLoad
                              + (telObs.rawLoad - before.jointLoad), 10)
              /\ IsRounded(smoothedSensorRef.speed,
                           10 * before.speed
                              + (telObs.rawSpeed - before.speed), 10)

\* a tick of the greatest activity (six deltas of 29) with both raw values
\* at their caps, the smoothed load already above 70
C16_Witness ==
    /\ Synthesized
    /\ telObs.totalAngularVelocity = 174
    /\ telObs.rawLoad = 80 /\ telObs.rawSpeed = 800
    /\ smoothedSensorRef.jointLoad > 70
    /\ smoothedSensorRef.speed > 700

----------------------------------------------------------------------------
(* Claims about the telemetry session, checked under SpecTel *)

\* C17: on every tick that extracts the joint angles, each of the six
\* channels moves from its smoothed value s to s + 0.15 x (r - s) rounded
\* to a whole degree, r being the channel's raw angle; the update never
\* increases |r - s| and never leaves s on the other side of r.
C17_FilterNeverOvershoots ==
    telObs.extracted =>
      \A j \in JointIndexes :
         LET r == telObs.raw[j]
             s == telObs.pre.smoothedAngles[j]
             next == smoothedAnglesRef[j]
         IN  /\ IsRounded(next, 20 * s + 3 * (r - s), 20)
             /\ Abs(r - next) <= Abs(r - s)
             /\ s <= r => next <= r
             /\ s >= r => next >= r

\* a tick on which one channel comes down towards its raw angle, one goes
\* up towards it, and one stays short of it
C17_Witness ==
    /\ telObs.extracted
    /\ \E j \in JointIndexes :
          /\ telObs.pre.smoothedAngles[j] > telObs.raw[j]
          /\ smoothedAnglesRef[j] < telObs.pre.smoothedAngles[j]
    /\ \E j \in JointIndexes :
          /\ telObs.pre.smoothedAngles[j] < telObs.raw[j]
          /\ smoothedAnglesRef[j] > telObs.pre.smoothedAngles[j]
    /\ \E j \in JointIndexes :
          /\ telObs.pre.smoothedAngles[j] # telObs.raw[j]
          /\ smoothedAnglesRef[j] = telObs.pre.smoothedAngles[j]

NoSkeleton == loadingStatus \in {"loaded", "error"} /\ bonesRef = <<>>

\* C20: in a session with no skeleton (no tracked bone, the model loaded
\* without one or failed to load), every unpaused tick emits a joint angle
\* set.
C20_FallbackEmitsAngles ==
    (NoSkeleton /\ telObs.op = "animate" /\ ~telObs.paused)
    => telObs.emittedAngles

----------------------------------------------------------------------------
(* Claims about the hold scenario, checked under SpecHold *)

\* C18: from the zero-seeded smoothed state, when the six joints hold
\* constant raw angles for 200 consecutive ticks, after the 200th tick
\* every smoothed angle is within 1 unit of its raw angle.
C18_HeldAnglesWithinOneUnit ==
    telTicks = 200 =>
      \A j \in JointIndexes :
         Abs(smoothedAnglesRef[j] - rawAnglesOf(bonesRef)[j]) <= 1

\* C19: in the same scenario, from the seeded sensor state, after the
\* 200th tick the smoothed load is within 1 unit of 20 (the raw load of
\* zero activity), and the alert evaluator returned no alert for the
\* sensor sample of any of the 200 ticks.
C19_HeldLoadNearTwenty ==
    telTicks = 200 =>
      /\ Abs(smoothedSensorRef.jointLoad - 20) <= 1
      /\ sensorData = smoothedSensorRef
      /\ ~alertSeen

----------------------------------------------------------------------------
(* Claims about the joint labels, checked under SpecProj *)

\* the world position the descriptor of joint i stands for: the bone's, or
\* the fixed fallback of index i when the bone is missing
StandsAt(bones, i) ==
    IF i <= Len(bones) /\ bones[i] # NoBone
    THEN bones[i].world
    ELSE VISUAL_JOINT_POSITIONS[i]

\* the anchor of the descriptor of joint i: the label's, or the default
\* anchor (width - 50, 100 + 40 x index), the index counted from 0
AnchorOf(labels, i) ==
    IF i <= Len(labels) THEN labels[i]
    ELSE [x |-> containerRef.clientWidth - 50, y |-> 100 + 40 * (i - 1)]

\* six descriptors in joint-index order, with the fallbacks
SixConnectors(lines, bones, labels) ==
    /\ Len(lines) = 6
    /\ \A i \in 1..6 :
        /\ [x |-> lines[i].endX, y |-> lines[i].endY]
             = projectToScreen(StandsAt(bones, i), cameraRef,
                               containerRef.clientWidth,
                               containerRef.clientHeight)
        /\ [x |-> lines[i].startX, y |-> lines[i].startY] = AnchorOf(labels, i)

\* C21: on every tick on which the joint labels are shown, for any number
\* of tracked joints from 0 to 6 and any subset of missing indices, the
\* projection result has exactly six connector descriptors in joint-index
\* order; a missing joint at index i is represented by the fixed fallback
\* world position of index i, and a missing label anchor by the default
\* anchor (width - 50, 100 + 40 x i).
C21_SixConnectorsEveryTick ==
    /\ projObs.op = "calculateLinePositions"
         => SixConnectors(projObs.ret, bonesRef, projObs.labelPositions)
    /\ (projObs.op = "animate" /\ showJointLabels)
         => SixConnectors(linePositions, bonesRef, LabelLayout)

\* C22: for a joint whose world position coincides with the camera
\* position, calculateLinePositions raises no error and the descriptor of
\* that joint has visible = false; in general a descriptor is visible iff
\* the projected depth component is < 1.
C22_CameraCoincidentJointHidden ==
    projObs.op = "calculateLinePositions" =>
        /\ Len(projObs.ret) = 6
        /\ \A i \in 1..6 :
            /\ StandsAt(bonesRef, i) = cameraRef.position
                 => projObs.ret[i].visible = FALSE
            /\ projObs.ret[i].visible
                 <=> lessThanOne(project(StandsAt(bonesRef, i), cameraRef).z)

----------------------------------------------------------------------------
(* Claims about the streak counters, checked under SpecCtl *)

\* C23: after any tick whose sampled rate r satisfies
\* 0.70 x target <= r <= 0.95 x target, both streak counters are zero (so
\* that low ticks separated by a dead-band tick never add up to a
\* transition).
C23_DeadBandResetsStreaks ==
    (TickDone /\ InDeadBand(ctlObs.fps, TargetOf(ctlObs.pre.capability)))
        => (lowFPSCount = 0 /\ highFPSCount = 0)

----------------------------------------------------------------------------
(* Claims about the raw joint angles, checked under SpecBone *)

Max3(a, b, c) ==
    IF a >= b /\ a >= c THEN a ELSE IF b >= c THEN b ELSE c

\* the first of x, y, z whose magnitude is the greatest of the three
DominantComponent(euler) ==
    LET m == Max3(Abs(euler.x), Abs(euler.y), Abs(euler.z))
    IN  IF Abs(euler.x) = m THEN euler.x
        ELSE IF Abs(euler.y) = m THEN euler.y
        ELSE euler.z

\* d degrees are rad units of rotation: d / 180 = rad / PI
IsDegreesOf(d, rad) == d * PI = rad * 180

\* C24: for every tracked joint with Euler components (x, y, z), the raw
\* angle is the degree conversion of a component c with
\* |c| = max(|x|, |y|, |z|), x taken before y before z on ties; for a joint
\* index with no bone the raw angle is 0.
C24_RawAngleIsDominantComponent ==
    telObs.op = "extractJointAngles" =>
        \A i \in 1..6 :
            IF i <= Len(bonesRef)
            THEN IsDegreesOf(telObs.raw[i], DominantComponent(bonesRef[i]))
            ELSE telObs.raw[i] = 0

\* a bone whose x and y components tie for the greatest magnitude with
\* opposite signs has given the x component, and an index had no bone
C24_Witness ==
    /\ telObs.op = "extractJointAngles"
    /\ \E i \in 1..Len(bonesRef) :
        /\ Abs(bonesRef[i].x) = Abs(bonesRef[i].y)
        /\ bonesRef[i].x = -180
        /\ bonesRef[i].y = 180
        /\ Abs(bonesRef[i].z) < 180
        /\ telObs.raw[i] = -90
    /\ Len(bonesRef) < 6

----------------------------------------------------------------------------
(* Claims about the alerts of synthesized telemetry, checked under         *)
(* SpecSynth                                                               *)

\* what the alert evaluator returns for the synthesizer's output
SynthDetection == useAlertDetection(smoothedSensorRef)

\* C25: in every state reachable from the seeded sensor state (load 30,
\* speed 200, cycle time 12) by any sequence of synthesizer ticks over any
\* angle inputs, the smoothed load is < 85, the smoothed speed < 800 and the
\* cycle time < 18, so the alert evaluator applied to the synthesizer
\* output never returns a danger alert and isOverheating is never true; the
\* cycle time also never reaches its warning threshold 15.
C25_NoDangerFromSynthesizer ==
    /\ smoothedSensorRef.jointLoad < ALL_THRESHOLDS.jointLoad.danger
    /\ smoothedSensorRef.speed < ALL_THRESHOLDS.speed.danger
    /\ smoothedSensorRef.cycleTime < ALL_THRESHOLDS.cycleTime.danger
    /\ smoothedSensorRef.cycleTime < ALL_THRESHOLDS.cycleTime.warning
    /\ \A i \in DOMAIN SynthDetection.alerts :
          SynthDetection.alerts[i].type # "danger"
    /\ ~SynthDetection.hasDanger
    /\ ~SynthDetection.isOverheating

\* the synthesizer has driven the speed as high as it goes and the load
\* and the speed past their warning thresholds: two warnings, no danger
C25_Witness ==
    /\ Synthesized
    /\ smoothedSensorRef.speed = 796
    /\ smoothedSensorRef.jointLoad > 70
    /\ SynthDetection.hasWarning
    /\ Len(SynthDetection.alerts) = 2

----------------------------------------------------------------------------
(* Claims about the spacing of tier changes, checked under SpecGap *)

\* C26: immediately after any tick that changes the tier both streak
\* counters are zero, and any two tier changes in a tick sequence are at
\* least 121 ticks apart, at least 301 ticks when the later one is an
\* upgrade.
C26_TierChangesSpaced ==
    spacing.changed # "none" =>
        /\ lowFPSCount = 0
        /\ highFPSCount = 0
        /\ spacing.gap > 0 =>
              /\ spacing.gap >= 121
              /\ spacing.changed = "up" => spacing.gap >= 301

\* a downgrade exactly 121 ticks after the tier change before it
C26_Witness ==
    /\ spacing.changed = "down"
    /\ spacing.gap = 121
    /\ lowFPSCount = 0 /\ highFPSCount = 0

----------------------------------------------------------------------------
(* Claims about pausing, checked under SpecTel *)

\* C27: on every tick that runs while the scene is paused, or while no
\* animation mixer exists, the smoothed angle set, the smoothed sensor
\* sample and the previous-angle memory are left unchanged and neither
\* onJointAnglesUpdate nor onSensorDataUpdate is invoked, while the
\* frame-rate monitor still records the frame; after resume the filters
\* continue from the values they held when pausing began.
C27_PauseFreezesTelemetry ==
    /\ (telObs.op = "animate" /\ (telObs.paused \/ ~mixerRef)) =>
          /\ smoothedAnglesRef = telObs.pre.smoothedAngles
          /\ smoothedSensorRef = telObs.pre.smoothedSensor
          /\ prevAnglesRef = telObs.pre.prevAngles
          /\ ~telObs.emittedAngles
          /\ ~telObs.emittedSensor
          /\ telObs.monitorTicks = 1
    /\ AfterPausedTick => TelPre = telObs.held
    /\ telObs.resumed => telObs.pre = telObs.held

\* the scene was paused with its filters under way, and the tick after the
\* pause has moved them on from the values held
C27_Witness ==
    /\ telObs.resumed
    /\ mixerRef
    /\ telObs.extracted
    /\ telObs.held.smoothedAngles # ZeroAngles
    /\ telObs.held.prevAngles # NoAngles
    /\ smoothedAnglesRef # telObs.held.smoothedAngles
    /\ smoothedSensorRef # telObs.held.smoothedSensor

----------------------------------------------------------------------------
(* Claims about the frame requests of the loop, checked under SpecLoop *)

\* C28: in every reachable state of a MotorScene session at most one
\* animation-frame request of the scene's loop is pending, for every
\* interleaving of frame callbacks, pause toggles, callback-prop changes
\* and unmount; after unmount no frame request is pending and the tick is
\* never invoked again.
C28_SingleLiveLoop ==
    /\ [](/\ Cardinality(requests) <= 1
          /\ ~mounted => requests = {})
    /\ [][~mounted => (nextId' = nextId /\ ticksInFrame' <= ticksInFrame)]_vars

\* the scene was unmounted after its loop had run in display frames and had
\* been restarted, and frames have passed since with no tick
C28_Witness ==
    /\ ~mounted
    /\ frameSeen
    /\ nextId > 3
    /\ animationIdRef # NoRequest
    /\ ticksInFrame = 0
    /\ requests = {}

----------------------------------------------------------------------------
(* Claims about the quality level of the scene, checked under SpecQuality *)

\* C29: for every classifier outcome t and every display pixel ratio, the
\* quality level the scene records at initialisation (derived from the
\* preset's computed pixel ratio: > 1.5 gives high, > 1 gives medium, else
\* low) equals t, the tier whose preset getQualitySettings() returned.
C29_QualityLevelMatchesTier ==
    detected.done => qualityLevel = detected.capability

----------------------------------------------------------------------------
(* Claims about the totality of FPSMonitor, checked under SpecMon *)

\* a finite, non-negative rate
IsFiniteRate(r) == r # Infinity /\ r >= 0

\* C30: for every sequence of tick() calls with any elapsed times >= 0
\* between them, two ticks at the same timestamp included, tick() and
\* getFPS() return a finite, non-negative number (the number the
\* controller's tick() compares with its thresholds is the one
\* FPSMonitor.tick() returns).
C30_RatesAreFinite ==
    /\ IsFiniteRate(fps)
    /\ monObs.op \in {"tick", "getFPS"} => IsFiniteRate(monObs.ret)

====
